---- MODULE Spec2Model ----
(***************************************************************************)
(* Live-Photo: stylization task client (lib/wavespeed), the /api/stylize   *)
(* routes, the page's stylization handlers (app/page.tsx) and the video    *)
(* compositor (lib/video-utils.ts).                                        *)
(*                                                                         *)
(* Each subsystem has its own specification over the shared variables:     *)
(*   SpecClient   the client's pure functions applied to provider replies  *)
(*   SpecPoll     pollStylizeResult as a process                           *)
(*   SpecPage     handleStylize / handleReset / interval polling           *)
(*   SpecCompose  composeVideoWithDoodleCover                              *)
(***************************************************************************)
EXTENDS Integers, Sequences, FiniteSets, TLC

(***************************************************************************)
(* JavaScript values.  U stands for undefined (an absent JSON field).      *)
(***************************************************************************)
U == "<undefined>"

\* JS truthiness of a string-or-undefined value
Truthy(v) == v # U /\ v # ""

\* JS a || b
JsOr(a, b) == IF Truthy(a) THEN a ELSE b

(***************************************************************************)
(* Provider replies.  kind is what fetch/response.json() produce:          *)
(*   "network"   fetch rejects                                             *)
(*   "http"      response.ok is false                                      *)
(*   "malformed" response.json() rejects                                   *)
(*   "json"      a 2xx reply with a JSON object body                       *)
(* hasData says whether body.data is an object; the flat fields are the    *)
(* top-level fields of the body.                                           *)
(***************************************************************************)
StatusTokens ==
  {U, "", "pending", "processing", "completed", "failed", "succeeded", "error", "created"}

OutputLists == {<<>>, <<"https://x/y.png">>}

DataObjects ==
  [id: {U, "", "abc"}, status: StatusTokens, outputs: OutputLists, error: {U, "boom"}]

NoData == [id |-> U, status |-> U, outputs |-> <<>>, error |-> U]

\* the top-level id fields a body may carry: each of the five names present or
\* absent (request_id possibly the empty string), each with a value of its own
\* so that precedence is observable
FlatIds ==
  { [request_id |-> rid,
     id |-> IF b[1] THEN "fid" ELSE U,
     requestId |-> IF b[2] THEN "reqId" ELSE U,
     prediction_id |-> IF b[3] THEN "pid" ELSE U,
     predictionId |-> IF b[4] THEN "predId" ELSE U]
    : rid \in {U, "", "rid"}, b \in [1..4 -> BOOLEAN] }

NoFlatIds ==
  [request_id |-> U, id |-> U, requestId |-> U, prediction_id |-> U, predictionId |-> U]

FailedReplies ==
  { [kind |-> k, hasData |-> FALSE, data |-> NoData, flat |-> NoFlatIds,
     status |-> U, outputs |-> <<>>, output |-> U, error |-> U, progress |-> 0]
    : k \in {"network", "http", "malformed"} }

SubmitReplies ==
  FailedReplies \cup
  { [kind |-> "json", hasData |-> h, data |-> d, flat |-> f,
     status |-> s, outputs |-> o, output |-> U, error |-> U, progress |-> 0]
    : h \in BOOLEAN, d \in {x \in DataObjects : x.error = U \/ x.status = "failed"},
      f \in FlatIds, s \in {U, "completed"}, o \in OutputLists }

PollReplies ==
  FailedReplies \cup
  { [kind |-> "json", hasData |-> h, data |-> d, flat |-> NoFlatIds,
     status |-> s, outputs |-> o, output |-> out, error |-> e, progress |-> p]
    : h \in BOOLEAN, d \in {x \in DataObjects : x.id = "abc"},
      s \in StatusTokens, o \in OutputLists, out \in {U, "https://x/flat.png"},
      e \in {U, "boom"}, p \in {0, 40} }

(***************************************************************************)
(* lib/wavespeed: submitStylizeTask                                        *)
(***************************************************************************)
Thrown(msg) ==
  [kind |-> "throw", requestId |-> U, status |-> U, resultUrl |-> U, error |-> msg]

\* the job id read from the body: data.data.id first, else the flat chain
ExtractRequestId(r) ==
  IF r.hasData /\ Truthy(r.data.id)
  THEN r.data.id
  ELSE JsOr(r.flat.request_id,
       JsOr(r.flat.id,
       JsOr(r.flat.requestId,
       JsOr(r.flat.prediction_id, r.flat.predictionId))))

SubmitTaskStatus(r) ==
  IF r.hasData THEN JsOr(r.data.status, "pending") ELSE "pending"

SubmitResultUrl(r) ==
  IF r.hasData /\ SubmitTaskStatus(r) = "completed" /\ Len(r.data.outputs) > 0
  THEN r.data.outputs[1] ELSE U

SubmitTaskError(r) ==
  IF r.hasData /\ SubmitTaskStatus(r) = "failed" /\ Truthy(r.data.error)
  THEN r.data.error ELSE U

\* a client that substitutes a default job id when the reply carries none
MissingIdOutcome_DefaultId(r) ==
  [kind |-> "ok", requestId |-> "default", status |-> SubmitTaskStatus(r),
   resultUrl |-> SubmitResultUrl(r), error |-> SubmitTaskError(r)]

MissingIdOutcome(r) == Thrown("No requestId returned from Wavespeed API")

submitStylizeTask(apiKey, r) ==
  IF ~apiKey THEN Thrown("WAVESPEED_API_KEY is not configured")
  ELSE IF r.kind = "network" THEN Thrown("fetch failed")
  ELSE IF r.kind = "http" THEN Thrown("Wavespeed API error")
  ELSE IF r.kind = "malformed" THEN Thrown("invalid json")
  ELSE IF ~Truthy(ExtractRequestId(r)) THEN MissingIdOutcome(r)
  ELSE [kind |-> "ok",
        requestId |-> ExtractRequestId(r),
        status |-> SubmitTaskStatus(r),
        resultUrl |-> SubmitResultUrl(r),
        error |-> SubmitTaskError(r)]

(***************************************************************************)
(* lib/wavespeed: getStylizeResult                                         *)
(***************************************************************************)
PollThrown(msg) ==
  [kind |-> "throw", status |-> U, resultUrl |-> U, error |-> msg, progress |-> 0]

\* data.output || data.outputs || [] ; Array.isArray(output) ? output[0] : output
FlatResultUrl(r) ==
  IF Truthy(r.output) THEN r.output
  ELSE IF Len(r.outputs) > 0 THEN r.outputs[1] ELSE U

getStylizeResult(apiKey, r) ==
  IF ~apiKey THEN PollThrown("WAVESPEED_API_KEY is not configured")
  ELSE IF r.kind = "network" THEN PollThrown("fetch failed")
  ELSE IF r.kind = "http" THEN PollThrown("Wavespeed API error")
  ELSE IF r.kind = "malformed" THEN PollThrown("invalid json")
  ELSE IF r.hasData
    THEN [kind |-> "ok",
          status |-> JsOr(r.data.status, "processing"),
          resultUrl |-> IF Len(r.data.outputs) > 0 THEN r.data.outputs[1] ELSE U,
          error |-> IF Truthy(r.data.error) THEN r.data.error ELSE U,
          progress |-> r.progress]
    ELSE [kind |-> "ok",
          status |-> JsOr(r.status, "processing"),
          resultUrl |-> FlatResultUrl(r),
          error |-> r.error,
          progress |-> r.progress]

(***************************************************************************)
(* app/api/stylize/route.ts: POST /api/stylize                             *)
(* frame is the request's frameDataUrl: "missing", "nocomma" (no base64    *)
(* part after the comma) or "ok"; putOk says whether the blob upload       *)
(* succeeds.                                                               *)
(***************************************************************************)
FrameInputs == {"missing", "nocomma", "ok"}

HttpReply(code, rid, st, url, err) ==
  [http |-> code, requestId |-> rid, status |-> st, resultUrl |-> url, error |-> err]

\* a route that always hands the task back for polling
StylizePostAnswer_AlwaysPending(task) ==
  HttpReply(200, task.requestId, "pending", U, U)

\* the route's answer for a task submitStylizeTask returned
StylizePostAnswer(task) ==
  IF task.status = "completed" /\ Truthy(task.resultUrl)
  THEN HttpReply(200, task.requestId, "completed", task.resultUrl, U)
  ELSE IF task.status = "failed"
  THEN HttpReply(500, task.requestId, U, U, JsOr(task.error, "Stylization task failed"))
  ELSE HttpReply(200, task.requestId, task.status, U, U)

StylizePOST(frame, putOk, apiKey, r) ==
  IF frame = "missing" THEN HttpReply(400, U, U, U, "frameDataUrl is required")
  ELSE IF frame = "nocomma" THEN HttpReply(400, U, U, U, "Invalid frameDataUrl format")
  ELSE IF ~putOk THEN HttpReply(500, U, U, U, "blob upload failed")
  ELSE LET task == submitStylizeTask(apiKey, r) IN
       IF task.kind = "throw" THEN HttpReply(500, U, U, U, task.error)
       ELSE StylizePostAnswer(task)

(***************************************************************************)
(* app/api/stylize/[requestId]/route.ts: GET /api/stylize/{requestId}      *)
(***************************************************************************)
PollReply(code, st, url, err, prog) ==
  [http |-> code, status |-> st, resultUrl |-> url, error |-> err, progress |-> prog]

\* "Map Wavespeed status to our status format"
MapStatus(s) ==
  IF s = "succeeded" THEN "completed"
  ELSE IF s = "error" THEN "failed"
  ELSE s

StylizeGET(requestId, apiKey, r) ==
  IF ~Truthy(requestId) THEN PollReply(400, U, U, "requestId is required", 0)
  ELSE LET result == getStylizeResult(apiKey, r) IN
       IF result.kind = "throw" THEN PollReply(500, "failed", U, result.error, 0)
       ELSE PollReply(200, MapStatus(result.status), result.resultUrl,
                      result.error, result.progress)

(***************************************************************************)
(* State                                                                   *)
(***************************************************************************)
VARIABLES
  c_pc,      \* SpecClient: "ready" | "done"
  c_in,      \* SpecClient: the call and the provider reply it meets
  c_task,    \* SpecClient: what submitStylizeTask produced
  c_post,    \* SpecClient: what POST /api/stylize answered
  c_result,  \* SpecClient: what getStylizeResult produced
  c_get      \* SpecClient: what GET /api/stylize/{requestId} answered

clientVars == <<c_pc, c_in, c_task, c_post, c_result, c_get>>

VARIABLES
  p_pc,           \* SpecPoll: "loop" | "awaiting" | "sleeping" | "returned" | "timeout" | "threw"
  p_maxAttempts,  \* SpecPoll: the maxAttempts argument
  p_intervalMs,   \* SpecPoll: the intervalMs argument
  p_attempt,      \* SpecPoll: the loop variable
  p_outstanding,  \* SpecPoll: polls issued and not yet answered
  p_slept,        \* SpecPoll: milliseconds spent in completed sleeps
  p_ret,          \* SpecPoll: the value returned
  p_log           \* SpecPoll: the polls, results and sleeps so far, in order

pollVars == <<p_pc, p_maxAttempts, p_intervalMs, p_attempt, p_outstanding, p_slept, p_ret, p_log>>

VARIABLES
  pg_apiKey,          \* SpecPage: WAVESPEED_API_KEY is configured on the server
  pg_apiCalls,        \* SpecPage: today's count in the localStorage record
  pg_extractedFrame,  \* SpecPage: extractedFrame is non-null
  pg_isExtracting,    \* SpecPage: isExtracting
  pg_doodleCoverUrl,  \* SpecPage: doodleCoverUrl (U for null)
  pg_isStylizing,     \* SpecPage: isStylizing
  pg_stylizeProgress, \* SpecPage: stylizeProgress
  pg_n,               \* SpecPage: handleStylize invocations so far
  pg_tasks,           \* SpecPage: per invocation, its closure and timers
  pg_polls,           \* SpecPage: polls issued so far, over all invocations
  pg_last             \* SpecPage: the latest submit that reached the provider

pageVars == <<pg_apiKey, pg_apiCalls, pg_extractedFrame, pg_isExtracting,
              pg_doodleCoverUrl, pg_isStylizing, pg_stylizeProgress, pg_n, pg_tasks,
              pg_polls, pg_last>>

VARIABLES
  cv_pc,          \* SpecCompose: where the async body of the composition is suspended
  cv_coverHs,     \* SpecCompose: coverDuration, in hundredths of a second
  cv_i,           \* SpecCompose: loop variable of the running phase
  cv_dur,         \* SpecCompose: video.duration, in playback steps
  cv_t,           \* SpecCompose: video.currentTime, in playback steps
  cv_paused,      \* SpecCompose: video.paused
  cv_endedEvt,    \* SpecCompose: the video's ended event is queued
  cv_raf,         \* SpecCompose: a requestAnimationFrame(captureFrame) is pending
  cv_frames,      \* SpecCompose: frames drawn in phase 3
  cv_rec,         \* SpecCompose: recorder.state ("none" before construction)
  cv_stopEvt,     \* SpecCompose: the recorder's stop event is queued
  cv_stopCalls,   \* SpecCompose: calls of recorder.stop()
  cv_urlLive,     \* SpecCompose: the object URL exists and is not revoked
  cv_settled,     \* SpecCompose: "pending" | "resolved" | "rejected"
  cv_log          \* SpecCompose: the observable effects so far, in order

composeVars == <<cv_pc, cv_coverHs, cv_i, cv_dur, cv_t, cv_paused, cv_endedEvt, cv_raf,
                 cv_frames, cv_rec, cv_stopEvt, cv_stopCalls, cv_urlLive, cv_settled, cv_log>>

VARIABLES
  ex_pc,          \* SpecExtract: "idle" | "called"
  ex_file,        \* SpecExtract: the File: its declared type and its name
  ex_dims,        \* SpecExtract: <<video.videoWidth, video.videoHeight>>
  ex_url,         \* SpecExtract: the object URL: "none" | "live" | "revoked"
  ex_timer,       \* SpecExtract: the 10 s timeout: "none" | "pending" | "cleared" | "fired"
  ex_video,       \* SpecExtract: the video element: "none" | "loading" | "loaded" | "errored"
  ex_seekPending, \* SpecExtract: a seek is under way and the seeked listener is registered
  ex_settled,     \* SpecExtract: the promise: its state and its value or error
  ex_log          \* SpecExtract: the observable effects so far, in order

extractVars == <<ex_pc, ex_file, ex_dims, ex_url, ex_timer, ex_video, ex_seekPending,
                 ex_settled, ex_log>>

VARIABLES
  ar_pc,     \* SpecAspect: "ready" | "done"
  ar_dims,   \* SpecAspect: <<width, height>>
  ar_out     \* SpecAspect: what calculateAspectRatio returned

aspectVars == <<ar_pc, ar_dims, ar_out>>

VARIABLES
  j_qstash,      \* SpecJobs: QSTASH_TOKEN and NEXT_PUBLIC_URL are both configured
  j_db,          \* SpecJobs: the Video table: per id, the status ("absent": no row)
  j_uploadHttp,  \* SpecJobs: the status code of the latest POST /api/upload (0: none yet)
  j_gen,         \* SpecJobs: the POST /api/generate invocations, in order of arrival
  j_queue,       \* SpecJobs: per id, the dispatched and not yet delivered worker requests
  j_work         \* SpecJobs: the POST /api/process invocations, in order of arrival

jobVars == <<j_qstash, j_db, j_uploadHttp, j_gen, j_queue, j_work>>

VARIABLES
  n_pc,         \* SpecNotifier: "idle" | "open" (start(controller) has run)
  n_status,     \* SpecNotifier: the status of the row with the channel's id ("absent": no row)
  n_interval,   \* SpecNotifier: the setInterval is active (not cleared)
  n_samples,    \* SpecNotifier: interval callbacks started so far
  n_inflight,   \* SpecNotifier: interval callbacks awaiting their findUnique
  n_closed,     \* SpecNotifier: the stream controller has been closed
  n_aborted,    \* SpecNotifier: the request's abort event has been delivered
  n_events,     \* SpecNotifier: the events enqueued on the channel, in order
  n_closeCalls, \* SpecNotifier: calls of controller.close()
  n_refused,    \* SpecNotifier: calls of controller.enqueue() on the closed controller
  n_uncaught    \* SpecNotifier: exceptions that left a callback or a listener

notifierVars == <<n_pc, n_status, n_interval, n_samples, n_inflight, n_closed, n_aborted,
                  n_events, n_closeCalls, n_refused, n_uncaught>>

VARIABLES
  up_pc,      \* SpecUpload: "idle" | "put" | "create" | "done"
  up_file,    \* SpecUpload: the file of the form's video field
  up_http,    \* SpecUpload: the status code answered, 0 before the answer
  up_rows,    \* SpecUpload: rows created by this request
  lm_pc,      \* SpecLimit: "idle" | "remaining" | "used" | "done"
  lm_count,   \* SpecLimit: the value stored under today's key (NoKey: no key)
  lm_reads,   \* SpecLimit: the outcome of each kv.get of this request, in order
  lm_body,    \* SpecLimit: the remaining, limit and used of the response
  lm_http     \* SpecLimit: the status code answered, 0 before the answer

uploadVars == <<up_pc, up_file, up_http, up_rows>>
limitVars == <<lm_pc, lm_count, lm_reads, lm_body, lm_http>>

laterVars == <<extractVars, aspectVars, jobVars, notifierVars, uploadVars, limitVars>>

vars == <<clientVars, pollVars, pageVars, composeVars, laterVars>>

notClientVars == <<pollVars, pageVars, composeVars, laterVars>>
notPollVars == <<clientVars, pageVars, composeVars, laterVars>>
notPageVars == <<clientVars, pollVars, composeVars, laterVars>>
notComposeVars == <<clientVars, pollVars, pageVars, laterVars>>
notExtractVars == <<clientVars, pollVars, pageVars, composeVars, aspectVars, jobVars,
                    notifierVars, uploadVars, limitVars>>
notAspectVars == <<clientVars, pollVars, pageVars, composeVars, extractVars, jobVars,
                   notifierVars, uploadVars, limitVars>>
notJobVars == <<clientVars, pollVars, pageVars, composeVars, extractVars, aspectVars,
                notifierVars, uploadVars, limitVars>>
notNotifierVars == <<clientVars, pollVars, pageVars, composeVars, extractVars, aspectVars,
                     jobVars, uploadVars, limitVars>>
notUploadVars == <<clientVars, pollVars, pageVars, composeVars, extractVars, aspectVars,
                   jobVars, notifierVars, limitVars>>
notLimitVars == <<clientVars, pollVars, pageVars, composeVars, extractVars, aspectVars,
                  jobVars, notifierVars, uploadVars>>

(***************************************************************************)
(* SpecClient: one call of the client through its route, on one reply      *)
(***************************************************************************)
ClientCall(op, apiKey, frame, putOk, rid, r) ==
  [op |-> op, apiKey |-> apiKey, frame |-> frame, putOk |-> putOk,
   requestId |-> rid, reply |-> r]

AnyFailedReply == CHOOSE r \in FailedReplies : r.kind = "http"

ClientInputs ==
  { ClientCall("submit", TRUE, "ok", TRUE, U, r) : r \in SubmitReplies } \cup
  { ClientCall("submit", k, f, p, U, AnyFailedReply)
      : k \in BOOLEAN, f \in FrameInputs, p \in BOOLEAN } \cup
  { ClientCall("poll", TRUE, "ok", TRUE, "abc", r) : r \in PollReplies } \cup
  { ClientCall("poll", k, "ok", TRUE, rid, AnyFailedReply)
      : k \in BOOLEAN, rid \in {"", "abc"} }

NoTask == Thrown(U)
NoPost == HttpReply(0, U, U, U, U)
NoResult == PollThrown(U)
NoGet == PollReply(0, U, U, U, 0)

IdleClient ==
  /\ c_pc = "done" /\ c_in = ClientCall("none", FALSE, "missing", FALSE, U, AnyFailedReply)
  /\ c_task = NoTask /\ c_post = NoPost /\ c_result = NoResult /\ c_get = NoGet

(***************************************************************************)
(* The page's stylization invocations.  Each handleStylize call owns a     *)
(* closure: the requestId it got, its setInterval handle, its setTimeout,  *)
(* and the isStylizing value of the render it was created in.              *)
(*   pc        "unused" | "submitting" | "polling" | "shown" (the submit   *)
(*             answer was final and the handler returned) | "failed" (the  *)
(*             handler's catch branch ran)                                 *)
(*   requestId the requestId of the submit answer                          *)
(*   interval  the setInterval is active (not cleared)                     *)
(*   timeout   the 180000 ms setTimeout is pending                         *)
(*   closureIsStylizing  isStylizing as captured by the closure            *)
(*   polled    an interval callback of this invocation has issued a poll   *)
(*   inflight  polls issued and not yet answered                           *)
(*   over      the UI has left this stylization: its catch branch ran, its *)
(*             timeout fired, handleReset ran or a later handleStylize     *)
(*             started                                                     *)
(***************************************************************************)
MaxTasks == 2

MaxPolls == 3

DAILY_LIMIT == 100

UnusedTask ==
  [pc |-> "unused", requestId |-> U, interval |-> FALSE,
   timeout |-> FALSE, closureIsStylizing |-> FALSE, polled |-> FALSE, inflight |-> 0,
   over |-> FALSE]

\* pg_last: which invocation, the provider's reply and what submitStylizeTask
\* made of it
NoLast == [idx |-> 0, reply |-> AnyFailedReply, task |-> NoTask]

IdlePage ==
  /\ pg_polls = 0 /\ pg_last = NoLast
  /\ pg_apiKey = FALSE /\ pg_apiCalls = 0 /\ pg_extractedFrame = FALSE
  /\ pg_isExtracting = FALSE /\ pg_doodleCoverUrl = U /\ pg_isStylizing = FALSE
  /\ pg_stylizeProgress = 0 /\ pg_n = 0 /\ pg_tasks = [i \in 1..MaxTasks |-> UnusedTask]

IdleCompose ==
  /\ cv_pc = "dead" /\ cv_coverHs = 0 /\ cv_i = 0 /\ cv_dur = 0 /\ cv_t = 0
  /\ cv_paused = TRUE /\ cv_endedEvt = FALSE /\ cv_raf = FALSE /\ cv_frames = 0
  /\ cv_rec = "none" /\ cv_stopEvt = FALSE /\ cv_stopCalls = 0
  /\ cv_urlLive = FALSE /\ cv_settled = "pending" /\ cv_log = <<>>

IdlePoll ==
  /\ p_pc = "returned" /\ p_maxAttempts = 0 /\ p_intervalMs = 0 /\ p_attempt = 0
  /\ p_outstanding = 0 /\ p_slept = 0 /\ p_ret = NoResult /\ p_log = <<>>

\* no extraction has been called
Pending == [state |-> "pending", value |-> U]

NoFile == [type |-> "", name |-> <<>>]

IdleExtract ==
  /\ ex_pc = "called" /\ ex_file = NoFile /\ ex_dims = <<0, 0>> /\ ex_url = "none"
  /\ ex_timer = "none" /\ ex_video = "none" /\ ex_seekPending = FALSE
  /\ ex_settled = Pending /\ ex_log = <<>>

IdleAspect == ar_pc = "done" /\ ar_dims = <<0, 0>> /\ ar_out = <<0, 0>>

MaxVideos == 1

MaxGenerate == 2

MaxWorkers == 2

VideoIds == 1..MaxVideos

\* an invocation of POST /api/generate: where it is suspended, the videoId of
\* its request (0: none), the status code it answered (0: not yet), whether
\* its update of the row went through and whether it handed a job to the queue
UnusedGenerate ==
  [pc |-> "unused", id |-> 0, http |-> 0, updated |-> FALSE, dispatched |-> FALSE]

\* an invocation of POST /api/process: where it is suspended, the videoId of
\* its request, whether the request body has been read, whether the catch
\* branch ran, whether the catch branch issued its update, the status code
UnusedWorker ==
  [pc |-> "unused", id |-> 0, bodyUsed |-> FALSE, threw |-> FALSE,
   markedFailed |-> FALSE, http |-> 0]

IdleJobs ==
  /\ j_qstash = FALSE /\ j_db = [v \in VideoIds |-> "absent"] /\ j_uploadHttp = 0
  /\ j_gen = [g \in 1..MaxGenerate |-> UnusedGenerate]
  /\ j_queue = [v \in VideoIds |-> 0]
  /\ j_work = [w \in 1..MaxWorkers |-> UnusedWorker]

IdleNotifier ==
  /\ n_pc = "open" /\ n_status = "absent" /\ n_interval = FALSE /\ n_samples = 0
  /\ n_inflight = 0 /\ n_closed = TRUE /\ n_aborted = TRUE /\ n_events = <<>>
  /\ n_closeCalls = 0 /\ n_refused = 0 /\ n_uncaught = 0

NoBody == [remaining |-> 0, limit |-> 0, used |-> 0]

IdleUpload == up_pc = "done" /\ up_file = NoFile /\ up_http = 0 /\ up_rows = 0

\* kv.get answers null when today's key does not exist
NoKey == -1

IdleLimit ==
  /\ lm_pc = "done" /\ lm_count = NoKey /\ lm_reads = <<>> /\ lm_body = NoBody
  /\ lm_http = 0

IdleRequests == IdleUpload /\ IdleLimit

IdleLater == IdleExtract /\ IdleAspect /\ IdleJobs /\ IdleNotifier /\ IdleRequests

IdleEarlier == IdleClient /\ IdlePoll /\ IdlePage /\ IdleCompose

InitClient ==
  /\ IdlePoll /\ IdlePage /\ IdleCompose /\ IdleLater
  /\ c_pc = "ready"
  /\ c_in \in ClientInputs
  /\ c_task = NoTask /\ c_post = NoPost /\ c_result = NoResult /\ c_get = NoGet

ClientSubmit ==
  /\ c_pc = "ready" /\ c_in.op = "submit"
  /\ c_task' = IF c_in.frame = "ok" /\ c_in.putOk
               THEN submitStylizeTask(c_in.apiKey, c_in.reply) ELSE NoTask
  /\ c_post' = StylizePOST(c_in.frame, c_in.putOk, c_in.apiKey, c_in.reply)
  /\ c_pc' = "done"
  /\ UNCHANGED <<c_in, c_result, c_get>>
  /\ UNCHANGED notClientVars

ClientPoll ==
  /\ c_pc = "ready" /\ c_in.op = "poll"
  /\ c_result' = IF Truthy(c_in.requestId)
                 THEN getStylizeResult(c_in.apiKey, c_in.reply) ELSE NoResult
  /\ c_get' = StylizeGET(c_in.requestId, c_in.apiKey, c_in.reply)
  /\ c_pc' = "done"
  /\ UNCHANGED <<c_in, c_task, c_post>>
  /\ UNCHANGED notClientVars

NextClient == ClientSubmit \/ ClientPoll

SpecClient == InitClient /\ [][NextClient]_vars

(***************************************************************************)
(* SpecPoll: lib/wavespeed pollStylizeResult(requestId, maxAttempts,       *)
(* intervalMs).  The awaits are the steps: a poll is issued, its result    *)
(* arrives, the sleep's timer fires.                                       *)
(***************************************************************************)
MaxAttempts == 3

DefaultIntervalMs == 3000

IntervalChoices == {1, DefaultIntervalMs}

\* replies a poll may meet: a transport failure, or each status token
PollSampleReplies ==
  { r \in PollReplies :
      \/ r.kind # "json"
      \/ /\ r.hasData /\ r.status = U /\ r.outputs = <<>> /\ r.output = U
         /\ r.error = U /\ r.progress = 0 /\ r.data.error = U
         /\ (Len(r.data.outputs) > 0 <=> r.data.status = "completed") }

\* for (let attempt = 0; attempt < maxAttempts; attempt++)
PollLoopContinues_OffByOne(attempt, maxAttempts) == attempt <= maxAttempts

PollLoopContinues(attempt, maxAttempts) == attempt < maxAttempts

\* if (result.status === 'completed' || result.status === 'failed') return result
PollIsTerminal_CompletedOnly(result) == result.status = "completed"

PollIsTerminal(result) == result.status = "completed" \/ result.status = "failed"

InitPoll ==
  /\ IdleClient /\ IdlePage /\ IdleCompose /\ IdleLater
  /\ p_pc = "loop"
  /\ p_maxAttempts \in 0..MaxAttempts
  /\ p_intervalMs \in IntervalChoices
  /\ p_attempt = 0 /\ p_outstanding = 0 /\ p_slept = 0
  /\ p_ret = NoResult /\ p_log = <<>>

\* const result = await getStylizeResult(requestId): the request goes out
PollIssue ==
  /\ p_pc = "loop" /\ PollLoopContinues(p_attempt, p_maxAttempts)
  /\ p_outstanding' = p_outstanding + 1
  /\ p_log' = Append(p_log, <<"poll", U>>)
  /\ p_pc' = "awaiting"
  /\ UNCHANGED <<p_maxAttempts, p_intervalMs, p_attempt, p_slept, p_ret>>
  /\ UNCHANGED notPollVars

\* the loop ends: throw new Error('Stylization timeout ...')
PollTimeout ==
  /\ p_pc = "loop" /\ ~PollLoopContinues(p_attempt, p_maxAttempts)
  /\ p_pc' = "timeout"
  /\ UNCHANGED <<p_maxAttempts, p_intervalMs, p_attempt, p_outstanding, p_slept, p_ret, p_log>>
  /\ UNCHANGED notPollVars

\* getStylizeResult settles: it throws, or returns a result that ends the
\* loop, or one after which the sleep is started
PollReceive ==
  /\ p_pc = "awaiting"
  /\ \E r \in PollSampleReplies :
       LET result == getStylizeResult(TRUE, r) IN
         /\ p_outstanding' = p_outstanding - 1
         /\ IF result.kind = "throw"
            THEN /\ p_pc' = "threw"
                 /\ p_log' = Append(p_log, <<"throw", U>>)
                 /\ p_ret' = p_ret
            ELSE IF PollIsTerminal(result)
            THEN /\ p_pc' = "returned"
                 /\ p_log' = Append(p_log, <<"result", result.status>>)
                 /\ p_ret' = result
            ELSE /\ p_pc' = "sleeping"
                 /\ p_log' = p_log \o << <<"result", result.status>>, <<"sleep", U>> >>
                 /\ p_ret' = p_ret
  /\ UNCHANGED <<p_maxAttempts, p_intervalMs, p_attempt, p_slept>>
  /\ UNCHANGED notPollVars

\* the setTimeout(resolve, intervalMs) fires; attempt++
PollWake ==
  /\ p_pc = "sleeping"
  /\ p_slept' = p_slept + p_intervalMs
  /\ p_attempt' = p_attempt + 1
  /\ p_pc' = "loop"
  /\ UNCHANGED <<p_maxAttempts, p_intervalMs, p_outstanding, p_ret, p_log>>
  /\ UNCHANGED notPollVars

NextPoll == PollIssue \/ PollTimeout \/ PollReceive \/ PollWake

SpecPoll == InitPoll /\ [][NextPoll]_vars

\* every request is eventually answered and every timer eventually fires
FairSpecPoll == SpecPoll /\ WF_vars(NextPoll)

(***************************************************************************)
(* SpecPage: app/page.tsx, the stylization handlers of Home                *)
(***************************************************************************)
\* replies the provider may give to the page's submit
PageSubmitReplies ==
  { r \in SubmitReplies :
      \/ r.kind = "http"
      \/ /\ r.kind = "json" /\ r.data.error = U /\ r.data.id # ""
         /\ r.flat \in {NoFlatIds, [NoFlatIds EXCEPT !.id = "fid"]}
         /\ (r.hasData <=> r.data.id = "abc") /\ (r.hasData <=> r.flat = NoFlatIds)
         /\ (r.hasData => r.status = U /\ r.outputs = <<>>
                           /\ r.data.status \in {U, "completed", "failed", "created"})
         /\ (~r.hasData => r.status = "completed" /\ r.outputs # <<>>
                            /\ r.data = NoData) }

\* what one submit may meet: <<the page's fetch settles with an answer, the
\* frame sent, the blob upload succeeds, the provider's reply>>
PageSubmitCases ==
  { <<TRUE, "ok", TRUE, r>> : r \in PageSubmitReplies } \cup
  { <<FALSE, "ok", TRUE, r>> :
      r \in {x \in PageSubmitReplies : x.kind = "json" /\ x.data.status = "completed"} } \cup
  { <<TRUE, "nocomma", TRUE, AnyFailedReply>>, <<TRUE, "ok", FALSE, AnyFailedReply>> }

\* replies the provider may give to a poll issued by the page
PagePollReplies ==
  { r \in PollSampleReplies :
      \/ r.kind = "http"
      \/ r.kind = "json" /\ r.data.status \in {"processing", "completed", "failed", "created"} }
  \cup
  { r \in PollReplies :
      /\ r.kind = "json" /\ r.hasData /\ r.status = U /\ r.outputs = <<>> /\ r.output = U
      /\ r.error = U /\ r.data.error = U
      /\ \/ r.data.status = "completed" /\ r.data.outputs = <<>> /\ r.progress = 0
         \/ r.data.status = "processing" /\ r.data.outputs = <<>> /\ r.progress = 40 }

\* what one poll may meet: <<the page's fetch settles with an answer, the
\* provider's reply>>
PagePollCases ==
  { <<TRUE, r>> : r \in PagePollReplies } \cup { <<FALSE, AnyFailedReply>> }

InitPage ==
  /\ IdleClient /\ IdlePoll /\ IdleCompose /\ IdleLater
  /\ pg_apiKey \in BOOLEAN
  /\ pg_apiCalls \in {0, DAILY_LIMIT - 1, DAILY_LIMIT}
  /\ pg_extractedFrame = FALSE /\ pg_isExtracting = FALSE
  /\ pg_doodleCoverUrl = U /\ pg_isStylizing = FALSE /\ pg_stylizeProgress = 0
  /\ pg_n = 0
  /\ pg_tasks = [i \in 1..MaxTasks |-> UnusedTask]
  /\ pg_polls = 0 /\ pg_last = NoLast

\* every invocation so far is marked as left by the UI
AllOver(tasks) ==
  [i \in 1..MaxTasks |-> IF tasks[i].pc = "unused" THEN tasks[i]
                          ELSE [tasks[i] EXCEPT !.over = TRUE]]

\* lib/api-limits canMakeApiCall
canMakeApiCall == pg_apiCalls < DAILY_LIMIT

\* handleFileSelect up to its first await (the upload card is rendered when
\* !extractedFrame && !isExtracting; HEIC files return before isExtracting)
FileSelect ==
  /\ ~pg_extractedFrame /\ ~pg_isExtracting
  /\ pg_doodleCoverUrl' = U
  /\ pg_isExtracting' = TRUE
  /\ UNCHANGED <<pg_apiKey, pg_apiCalls, pg_extractedFrame, pg_isStylizing,
                 pg_stylizeProgress, pg_n, pg_tasks, pg_polls,
                 pg_last>>
  /\ UNCHANGED notPageVars

\* handleFileSelect after getVideoDuration / extractFirstFrame settle
FileSelectDone ==
  /\ pg_isExtracting
  /\ \E ok \in BOOLEAN : pg_extractedFrame' = ok
  /\ pg_isExtracting' = FALSE
  /\ UNCHANGED <<pg_apiKey, pg_apiCalls, pg_doodleCoverUrl, pg_isStylizing,
                 pg_stylizeProgress, pg_n, pg_tasks, pg_polls,
                 pg_last>>
  /\ UNCHANGED notPageVars

\* handleReset; its buttons are rendered only while doodleCoverUrl is set
handleReset ==
  /\ pg_doodleCoverUrl # U
  /\ pg_extractedFrame' = FALSE
  /\ pg_doodleCoverUrl' = U
  /\ pg_isStylizing' = FALSE
  /\ pg_stylizeProgress' = 0
  /\ pg_tasks' = AllOver(pg_tasks)
  /\ UNCHANGED <<pg_apiKey, pg_apiCalls, pg_isExtracting, pg_n, pg_polls,
                 pg_last>>
  /\ UNCHANGED notPageVars

\* handleStylize up to the await of fetch('/api/stylize'); both of its
\* buttons need the frame and are unavailable while isStylizing
handleStylize ==
  /\ pg_extractedFrame /\ ~pg_isStylizing
  /\ canMakeApiCall
  /\ pg_n < MaxTasks
  /\ pg_n' = pg_n + 1
  /\ pg_isStylizing' = TRUE
  /\ pg_stylizeProgress' = 0
  /\ pg_doodleCoverUrl' = U
  /\ pg_tasks' = [AllOver(pg_tasks) EXCEPT ![pg_n + 1] =
                    [UnusedTask EXCEPT !.pc = "submitting",
                                       !.closureIsStylizing = pg_isStylizing]]
  /\ UNCHANGED <<pg_apiKey, pg_apiCalls, pg_extractedFrame, pg_isExtracting, pg_polls,
                 pg_last>>
  /\ UNCHANGED notPageVars

\* if (status === 'completed' && resultUrl): the submit answer is final
SubmitAnswerIsFinal(post) == post.status = "completed" /\ Truthy(post.resultUrl)

\* handleStylize from the answer of POST /api/stylize on: the catch branch,
\* the immediate completion, or the start of the interval and the timeout
StylizeSubmitted(i) ==
  /\ pg_tasks[i].pc = "submitting"
  /\ \E case \in PageSubmitCases :
       LET fetchOk == case[1]
           frame == case[2]
           putOk == case[3]
           r == case[4]
           post == StylizePOST(frame, putOk, pg_apiKey, r)
           reached == frame = "ok" /\ putOk /\ pg_apiKey
           mine == [pg_tasks[i] EXCEPT !.requestId = post.requestId]
       IN
         /\ pg_last' = IF reached
                       THEN [idx |-> i, reply |-> r, task |-> submitStylizeTask(pg_apiKey, r)]
                       ELSE pg_last
         /\ IF ~fetchOk \/ post.http # 200
            THEN /\ pg_isStylizing' = FALSE
                 /\ pg_tasks' = [pg_tasks EXCEPT ![i] =
                                   [mine EXCEPT !.pc = "failed", !.over = TRUE]]
                 /\ UNCHANGED <<pg_apiCalls, pg_doodleCoverUrl, pg_stylizeProgress>>
            ELSE IF SubmitAnswerIsFinal(post)
            THEN /\ pg_apiCalls' = pg_apiCalls + 1
                 /\ pg_doodleCoverUrl' = post.resultUrl
                 /\ pg_stylizeProgress' = 100
                 /\ pg_isStylizing' = FALSE
                 /\ pg_tasks' = [pg_tasks EXCEPT ![i] = [mine EXCEPT !.pc = "shown"]]
            ELSE /\ pg_apiCalls' = pg_apiCalls + 1
                 /\ pg_tasks' = [pg_tasks EXCEPT ![i] =
                                   [mine EXCEPT !.pc = "polling", !.interval = TRUE,
                                                !.timeout = TRUE]]
                 /\ UNCHANGED <<pg_doodleCoverUrl, pg_stylizeProgress, pg_isStylizing>>
  /\ UNCHANGED <<pg_apiKey, pg_extractedFrame, pg_isExtracting, pg_n, pg_polls>>
  /\ UNCHANGED notPageVars

\* the setInterval callback starts: fetch(`/api/stylize/${requestId}`) goes
\* out, whether or not earlier polls have been answered
IntervalTick(i) ==
  /\ pg_tasks[i].interval
  /\ pg_polls < MaxPolls
  /\ pg_polls' = pg_polls + 1
  /\ pg_tasks' = [pg_tasks EXCEPT ![i].polled = TRUE, ![i].inflight = @ + 1]
  /\ UNCHANGED <<pg_apiKey, pg_apiCalls, pg_extractedFrame, pg_isExtracting,
                 pg_doodleCoverUrl, pg_isStylizing, pg_stylizeProgress, pg_n, pg_last>>
  /\ UNCHANGED notPageVars

\* the rest of the setInterval callback, once its fetch has settled
PollAnswered(i) ==
  /\ pg_tasks[i].inflight > 0
  /\ \E case \in PagePollCases :
       LET fetchOk == case[1]
           r == case[2]
           result == StylizeGET(pg_tasks[i].requestId, pg_apiKey, r)
           progress == IF fetchOk /\ result.progress # 0
                       THEN result.progress ELSE pg_stylizeProgress
       IN
         /\ pg_stylizeProgress' = progress
         /\ IF fetchOk /\ result.status = "completed" /\ Truthy(result.resultUrl)
            THEN /\ pg_doodleCoverUrl' = result.resultUrl
                 /\ pg_isStylizing' = FALSE
                 /\ pg_tasks' = [pg_tasks EXCEPT ![i].inflight = @ - 1,
                                                 ![i].interval = FALSE]
            ELSE IF ~fetchOk \/ result.status = "failed"
            THEN /\ pg_isStylizing' = FALSE
                 /\ pg_tasks' = [pg_tasks EXCEPT ![i].inflight = @ - 1,
                                                 ![i].interval = FALSE,
                                                 ![i].over = TRUE]
                 /\ UNCHANGED pg_doodleCoverUrl
            ELSE /\ pg_tasks' = [pg_tasks EXCEPT ![i].inflight = @ - 1]
                 /\ UNCHANGED <<pg_doodleCoverUrl, pg_isStylizing>>
  /\ UNCHANGED <<pg_apiKey, pg_apiCalls, pg_extractedFrame, pg_isExtracting, pg_n, pg_polls,
                 pg_last>>
  /\ UNCHANGED notPageVars

\* the setTimeout(..., 180000) callback; the time between timer callbacks is
\* not measured, so it may follow any number of interval ticks
StylizeTimeout(i) ==
  /\ pg_tasks[i].timeout
  /\ pg_isStylizing' = IF pg_tasks[i].closureIsStylizing THEN FALSE ELSE pg_isStylizing
  /\ pg_tasks' = [pg_tasks EXCEPT ![i].timeout = FALSE, ![i].interval = FALSE,
                                  ![i].over = TRUE]
  /\ UNCHANGED <<pg_apiKey, pg_apiCalls, pg_extractedFrame, pg_isExtracting,
                 pg_doodleCoverUrl, pg_stylizeProgress, pg_n, pg_polls,
                 pg_last>>
  /\ UNCHANGED notPageVars

NextPage ==
  \/ FileSelect
  \/ FileSelectDone
  \/ handleReset
  \/ handleStylize
  \/ \E i \in 1..MaxTasks : StylizeSubmitted(i)
  \/ \E i \in 1..MaxTasks : IntervalTick(i)
  \/ \E i \in 1..MaxTasks : PollAnswered(i)
  \/ \E i \in 1..MaxTasks : StylizeTimeout(i)

SpecPage == InitPage /\ [][NextPage]_vars

(***************************************************************************)
(* SpecCompose: lib/video-utils.ts composeVideoWithDoodleCover.            *)
(* A step runs the async body from one await to the next; the log holds    *)
(* what the body did, as triples:                                          *)
(*   <<"progress", n, d>>   onProgress(n / d)                              *)
(*   <<"coverDraw", i, 0>>  phase 1 draw of tick i                         *)
(*   <<"fade", n, d>>       phase 1 second draw at globalAlpha n / d       *)
(*   <<"wait", n, d>>       setTimeout of n / d ms awaited                 *)
(*   <<"seek", 0, 0>>       video.currentTime = 0                          *)
(*   <<"transitionDraw", n, d>>  phase 2 draw at globalAlpha n / d         *)
(*   <<"play", 0, 0>>, <<"frameDraw", t, 0>>, <<"stop", 0, 0>>,            *)
(*   <<"createObjectURL", 0, 0>>, <<"revoke", 0, 0>>,                      *)
(*   <<"recorderStart", 0, 0>>, <<"resolve", 0, 0>>, <<"reject", 0, 0>>    *)
(***************************************************************************)
MaxDuration == 2

MaxFrames == 2

\* const fps = 30
TargetFps == 30

\* const transitionDuration = 0.5, in hundredths of a second
TransitionHs == 50

\* coverDuration arguments, in hundredths of a second (1.5 s is the default)
CoverDurations == {0, 5, 10, 150}

\* Math.floor(seconds * fps)
FrameCount_Rounded(hs, fps) == (hs * fps + 50) \div 100

FrameCount(hs, fps) == (hs * fps) \div 100

coverFrames == FrameCount(cv_coverHs, TargetFps)

transitionFrames == FrameCount(TransitionHs, TargetFps)

Ev(kind, a, b) == <<kind, a, b>>

\* 30 + (i / coverFrames) * 20
CoverProgress(i, n) == Ev("progress", 30 * n + 20 * i, n)

\* 50 + (i / transitionFrames) * 10
TransitionProgress_FromForty(i, n) == Ev("progress", 40 * n + 10 * i, n)

TransitionProgress(i, n) == Ev("progress", 50 * n + 10 * i, n)

\* 60 + (video.currentTime / video.duration) * 35
VideoProgress(t, d) == Ev("progress", 60 * d + 35 * t, d)

\* one pass of the phase 1 loop body up to its await
CoverIteration(i) ==
  <<Ev("coverDraw", i, 0)>>
  \o (IF i * 10 < TargetFps * 3 THEN <<Ev("fade", i * 10, TargetFps * 3)>> ELSE <<>>)
  \o <<Ev("wait", 1000, TargetFps)>>

\* one pass of the phase 2 loop body up to its await
TransitionIteration(i) ==
  <<Ev("transitionDraw", i, transitionFrames), Ev("wait", 1000, TargetFps)>>

\* video.ended
VideoEnded_Never(t, d) == FALSE

VideoEnded(t, d) == t = d

InitCompose ==
  /\ IdleClient /\ IdlePoll /\ IdlePage /\ IdleLater
  /\ cv_pc = "idle"
  /\ cv_coverHs \in CoverDurations
  /\ cv_dur \in 0..MaxDuration
  /\ cv_i = 0 /\ cv_t = 0 /\ cv_paused = TRUE /\ cv_endedEvt = FALSE /\ cv_raf = FALSE
  /\ cv_frames = 0 /\ cv_rec = "none" /\ cv_stopEvt = FALSE /\ cv_stopCalls = 0
  /\ cv_urlLive = FALSE /\ cv_settled = "pending" /\ cv_log = <<>>

\* reject(error) of the outer promise
Rejected == IF cv_settled = "pending" THEN "rejected" ELSE cv_settled

\* the call: onProgress(5), loadImage(doodleCoverUrl) awaited
ComposeStart ==
  /\ cv_pc = "idle"
  /\ cv_log' = <<Ev("progress", 5, 1)>>
  /\ cv_pc' = "loadingCover"
  /\ UNCHANGED <<cv_coverHs, cv_i, cv_dur, cv_t, cv_paused, cv_endedEvt, cv_raf,
                 cv_frames, cv_rec, cv_stopEvt, cv_stopCalls, cv_urlLive, cv_settled>>
  /\ UNCHANGED notComposeVars

\* loadImage settles: onProgress(10), the video element gets its object URL
\* and the load is awaited; or the catch rejects
CoverImageSettled ==
  /\ cv_pc = "loadingCover"
  /\ \E ok \in BOOLEAN :
       IF ok
       THEN /\ cv_log' = cv_log \o <<Ev("progress", 10, 1), Ev("createObjectURL", 0, 0)>>
            /\ cv_urlLive' = TRUE
            /\ cv_pc' = "loadingVideo"
            /\ UNCHANGED cv_settled
       ELSE /\ cv_log' = Append(cv_log, Ev("reject", 0, 0))
            /\ cv_settled' = Rejected
            /\ cv_pc' = "dead"
            /\ UNCHANGED cv_urlLive
  /\ UNCHANGED <<cv_coverHs, cv_i, cv_dur, cv_t, cv_paused, cv_endedEvt, cv_raf,
                 cv_frames, cv_rec, cv_stopEvt, cv_stopCalls>>
  /\ UNCHANGED notComposeVars

\* the body from the end of one phase 1 tick: the next pass of the loop, or
\* onProgress(50), the seek and the await of seeked
AfterCoverTick(log, i) ==
  IF i < coverFrames
  THEN /\ cv_log' = log \o CoverIteration(i)
       /\ cv_pc' = "coverWait"
  ELSE /\ cv_log' = log \o <<Ev("progress", 50, 1), Ev("seek", 0, 0)>>
       /\ cv_pc' = "seeking"

\* the video load settles: loadeddata (onProgress(20), canvas, recorder,
\* recorder.start(), onProgress(30), phase 1 begins), or the video's error
\* event, a null 2d context or a MediaRecorder constructor that throws
VideoLoadSettled ==
  /\ cv_pc = "loadingVideo"
  /\ \E outcome \in {"loadeddata", "error", "noContext", "noRecorder"} :
       IF outcome = "loadeddata"
       THEN /\ AfterCoverTick(cv_log \o <<Ev("progress", 20, 1), Ev("recorderStart", 0, 0),
                                           Ev("progress", 30, 1)>>, 0)
            /\ cv_rec' = "recording"
            /\ UNCHANGED cv_settled
       ELSE /\ cv_log' = cv_log \o (IF outcome = "error" THEN <<>> ELSE <<Ev("progress", 20, 1)>>)
                                \o <<Ev("reject", 0, 0)>>
            /\ cv_settled' = Rejected
            /\ cv_pc' = "dead"
            /\ UNCHANGED cv_rec
  /\ cv_i' = 0
  /\ UNCHANGED <<cv_coverHs, cv_dur, cv_t, cv_paused, cv_endedEvt, cv_raf,
                 cv_frames, cv_stopEvt, cv_stopCalls, cv_urlLive>>
  /\ UNCHANGED notComposeVars

\* a phase 1 timer fires: the tick's progress, i++, and on from there
CoverTimer ==
  /\ cv_pc = "coverWait"
  /\ AfterCoverTick(Append(cv_log, CoverProgress(cv_i, coverFrames)), cv_i + 1)
  /\ cv_i' = IF cv_i + 1 < coverFrames THEN cv_i + 1 ELSE 0
  /\ UNCHANGED <<cv_coverHs, cv_dur, cv_t, cv_paused, cv_endedEvt, cv_raf, cv_frames,
                 cv_rec, cv_stopEvt, cv_stopCalls, cv_urlLive, cv_settled>>
  /\ UNCHANGED notComposeVars

\* recorder.stop(): an active recorder becomes inactive and queues its stop
\* event; on an inactive recorder the call has no effect on the recorder
RecorderStop ==
  /\ cv_stopCalls' = cv_stopCalls + 1
  /\ cv_rec' = "inactive"
  /\ cv_stopEvt' = (cv_stopEvt \/ cv_rec = "recording")

\* captureFrame(), called with the log so far and the video's paused flag
captureFrame(log, paused) ==
  IF VideoEnded(cv_t, cv_dur) \/ paused
  THEN /\ RecorderStop
       /\ cv_log' = Append(log, Ev("stop", 0, 0))
       /\ cv_raf' = FALSE
       /\ UNCHANGED cv_frames
  ELSE /\ cv_log' = log \o <<Ev("frameDraw", cv_t, 0), VideoProgress(cv_t, cv_dur)>>
       /\ cv_raf' = TRUE
       /\ cv_frames' = cv_frames + 1
       /\ UNCHANGED <<cv_rec, cv_stopEvt, cv_stopCalls>>

\* the seeked event: phase 2 begins with its first pass
Seeked ==
  /\ cv_pc = "seeking"
  /\ cv_log' = cv_log \o TransitionIteration(0)
  /\ cv_pc' = "transWait"
  /\ cv_i' = 0
  /\ UNCHANGED <<cv_coverHs, cv_dur, cv_t, cv_paused, cv_endedEvt, cv_raf, cv_frames,
                 cv_rec, cv_stopEvt, cv_stopCalls, cv_urlLive, cv_settled>>
  /\ UNCHANGED notComposeVars

\* a phase 2 timer fires before the last pass: progress, i++, next pass
TransitionTimer ==
  /\ cv_pc = "transWait" /\ cv_i + 1 < transitionFrames
  /\ cv_log' = Append(cv_log, TransitionProgress(cv_i, transitionFrames))
                  \o TransitionIteration(cv_i + 1)
  /\ cv_i' = cv_i + 1
  /\ UNCHANGED <<cv_pc, cv_coverHs, cv_dur, cv_t, cv_paused, cv_endedEvt, cv_raf,
                 cv_frames, cv_rec, cv_stopEvt, cv_stopCalls, cv_urlLive, cv_settled>>
  /\ UNCHANGED notComposeVars

\* the last phase 2 timer fires: progress, onProgress(60), video.play() (which
\* leaves the video paused when the play is refused), the ended listener,
\* and the first captureFrame()
PlaybackStart ==
  /\ cv_pc = "transWait" /\ cv_i + 1 >= transitionFrames
  /\ \E started \in BOOLEAN :
       /\ cv_paused' = ~started
       /\ captureFrame(cv_log \o <<TransitionProgress(cv_i, transitionFrames),
                                    Ev("progress", 60, 1), Ev("play", 0, 0)>>, ~started)
  /\ cv_pc' = "playing"
  /\ cv_i' = 0
  /\ UNCHANGED <<cv_coverHs, cv_dur, cv_t, cv_endedEvt, cv_urlLive, cv_settled>>
  /\ UNCHANGED notComposeVars

\* playback advances; reaching the end queues the ended event
VideoAdvance ==
  /\ cv_pc = "playing" /\ ~cv_paused /\ cv_t < cv_dur
  /\ cv_t' = cv_t + 1
  /\ cv_endedEvt' = (cv_t + 1 = cv_dur)
  /\ UNCHANGED <<cv_pc, cv_coverHs, cv_i, cv_dur, cv_paused, cv_raf, cv_frames, cv_rec,
                 cv_stopEvt, cv_stopCalls, cv_urlLive, cv_settled, cv_log>>
  /\ UNCHANGED notComposeVars

\* the user agent pauses the video during playback
UnexpectedPause ==
  /\ cv_pc = "playing" /\ ~cv_paused /\ cv_t < cv_dur
  /\ cv_paused' = TRUE
  /\ UNCHANGED <<cv_pc, cv_coverHs, cv_i, cv_dur, cv_t, cv_endedEvt, cv_raf, cv_frames,
                 cv_rec, cv_stopEvt, cv_stopCalls, cv_urlLive, cv_settled, cv_log>>
  /\ UNCHANGED notComposeVars

\* video.addEventListener('ended', () => recorder.stop(), { once: true })
EndedEvent ==
  /\ cv_pc = "playing" /\ cv_endedEvt
  /\ cv_endedEvt' = FALSE
  /\ RecorderStop
  /\ cv_log' = Append(cv_log, Ev("stop", 0, 0))
  /\ UNCHANGED <<cv_pc, cv_coverHs, cv_i, cv_dur, cv_t, cv_paused, cv_raf, cv_frames,
                 cv_urlLive, cv_settled>>
  /\ UNCHANGED notComposeVars

\* requestAnimationFrame(captureFrame) fires
AnimationFrame ==
  /\ cv_raf
  /\ VideoEnded(cv_t, cv_dur) \/ cv_paused \/ cv_frames < MaxFrames
  /\ captureFrame(cv_log, cv_paused)
  /\ UNCHANGED <<cv_pc, cv_coverHs, cv_i, cv_dur, cv_t, cv_paused, cv_endedEvt,
                 cv_urlLive, cv_settled>>
  /\ UNCHANGED notComposeVars

\* recorder.onstop: the blob, URL.revokeObjectURL, onProgress(100), resolve
RecorderStopEvent ==
  /\ cv_stopEvt
  /\ cv_stopEvt' = FALSE
  /\ cv_log' = cv_log \o <<Ev("revoke", 0, 0), Ev("progress", 100, 1), Ev("resolve", 0, 0)>>
  /\ cv_urlLive' = FALSE
  /\ cv_settled' = IF cv_settled = "pending" THEN "resolved" ELSE cv_settled
  /\ UNCHANGED <<cv_pc, cv_coverHs, cv_i, cv_dur, cv_t, cv_paused, cv_endedEvt, cv_raf,
                 cv_frames, cv_rec, cv_stopCalls>>
  /\ UNCHANGED notComposeVars

\* recorder.onerror: URL.revokeObjectURL, reject; the recorder is inactive
\* afterwards and the user agent may or may not follow with a stop event
RecorderError ==
  /\ cv_rec = "recording"
  /\ cv_rec' = "inactive"
  /\ \E fires \in BOOLEAN : cv_stopEvt' = fires
  /\ cv_log' = cv_log \o <<Ev("revoke", 0, 0), Ev("reject", 0, 0)>>
  /\ cv_urlLive' = FALSE
  /\ cv_settled' = Rejected
  /\ UNCHANGED <<cv_pc, cv_coverHs, cv_i, cv_dur, cv_t, cv_paused, cv_endedEvt, cv_raf,
                 cv_frames, cv_stopCalls>>
  /\ UNCHANGED notComposeVars

NextCompose ==
  \/ ComposeStart
  \/ CoverImageSettled
  \/ VideoLoadSettled
  \/ CoverTimer
  \/ Seeked
  \/ TransitionTimer
  \/ PlaybackStart
  \/ VideoAdvance
  \/ UnexpectedPause
  \/ EndedEvent
  \/ AnimationFrame
  \/ RecorderStopEvent
  \/ RecorderError

SpecCompose == InitCompose /\ [][NextCompose]_vars

\* composition of a zero-length or near-zero-length source (at most one step
\* of playback), with every pending timer, media event, animation frame and
\* recorder event eventually delivered
InitComposeShortSource == InitCompose /\ cv_dur <= 1

FairSpecComposeShortSource ==
  InitComposeShortSource /\ [][NextCompose]_vars /\ WF_vars(NextCompose)

(***************************************************************************)
(* lib/video-utils.ts calculateAspectRatio.  The string `${a}:${b}` is the  *)
(* pair <<a, b>>.  The comparisons are made on doubles: a difference that   *)
(* is exactly the tolerance as a rational is decided by the rounding of     *)
(* ratioW / ratioH, of the target and of the subtraction.                   *)
(***************************************************************************)
MaxSide == 45

RECURSIVE gcd(_, _)
gcd(a, b) == IF b = 0 THEN a ELSE gcd(b, a % b)

Abs(x) == IF x < 0 THEN 0 - x ELSE x

AspectString(a, b) == <<a, b>>

\* the reduced ratios whose distance from a target is the tolerance exactly
\* and whose computed double distance falls below the double tolerance:
\* |151/90 - 16/9|, |53/80 - 9/16|, |37/80 - 9/16|, |37/30 - 4/3|; for
\* 169/90, 43/30, 101/100 and 99/100 the computed distance falls above it
RoundsBelowTolerance == {<<151, 90>>, <<53, 80>>, <<37, 80>>, <<37, 30>>}

\* Math.abs(ratioW / ratioH - a / b) < tn / td
WithinTolerance(rw, rh, a, b, tn, td) ==
  \/ td * Abs(b * rw - a * rh) < tn * b * rh
  \/ td * Abs(b * rw - a * rh) = tn * b * rh /\ <<rw, rh>> \in RoundsBelowTolerance

calculateAspectRatio(width, height) ==
  LET divisor == gcd(width, height)
      ratioW == width \div divisor
      ratioH == height \div divisor
  IN IF WithinTolerance(ratioW, ratioH, 16, 9, 1, 10) THEN AspectString(16, 9)
     ELSE IF WithinTolerance(ratioW, ratioH, 9, 16, 1, 10) THEN AspectString(9, 16)
     ELSE IF WithinTolerance(ratioW, ratioH, 4, 3, 1, 10) THEN AspectString(4, 3)
     ELSE IF WithinTolerance(ratioW, ratioH, 1, 1, 1, 100) THEN AspectString(1, 1)
     ELSE AspectString(ratioW, ratioH)

\* resolutions beyond MaxSide: the usual ones and the ones at a tolerance's edge
NamedResolutions ==
  {<<1920, 1080>>, <<1080, 1080>>, <<1080, 1920>>, <<640, 480>>, <<3840, 2160>>,
   <<169, 90>>, <<151, 90>>, <<53, 80>>, <<37, 80>>, <<860, 600>>, <<370, 300>>,
   <<1010, 1000>>, <<990, 1000>>}

AspectInputs == ((1..MaxSide) \X (1..MaxSide)) \cup NamedResolutions

InitAspect ==
  /\ IdleEarlier /\ IdleExtract /\ IdleJobs /\ IdleNotifier /\ IdleRequests
  /\ ar_pc = "ready" /\ ar_dims \in AspectInputs /\ ar_out = <<0, 0>>

AspectCall ==
  /\ ar_pc = "ready"
  /\ ar_out' = calculateAspectRatio(ar_dims[1], ar_dims[2])
  /\ ar_pc' = "done"
  /\ UNCHANGED ar_dims
  /\ UNCHANGED notAspectVars

NextAspect == AspectCall

SpecAspect == InitAspect /\ [][NextAspect]_vars

(***************************************************************************)
(* SpecExtract: lib/video-utils.ts extractFirstFrame.  The executor runs    *)
(* at the call; the timeout and the video's loadeddata, seeked and error    *)
(* events run their listeners later, each listener at most once.  A file    *)
(* name is the sequence of its characters.                                 *)
(***************************************************************************)
LowerChar(c) ==
  CASE c = "A" -> "a" [] c = "C" -> "c" [] c = "E" -> "e" [] c = "F" -> "f"
    [] c = "H" -> "h" [] c = "I" -> "i" [] OTHER -> c

\* String.prototype.toLowerCase
toLowerCase_Identity(name) == name

toLowerCase(name) == [k \in 1..Len(name) |-> LowerChar(name[k])]

\* String.prototype.endsWith
endsWith(str, suffix) ==
  /\ Len(str) >= Len(suffix)
  /\ SubSeq(str, Len(str) - Len(suffix) + 1, Len(str)) = suffix

DotHeic == <<".", "h", "e", "i", "c">>

DotHeif == <<".", "h", "e", "i", "f">>

isHeicFile(file) ==
  LET fileName == toLowerCase(file.name) IN
    \/ file.type = "image/heic"
    \/ file.type = "image/heif"
    \/ endsWith(fileName, DotHeic)
    \/ endsWith(fileName, DotHeif)

\* file.type.startsWith('video/'), on the declared types below
IsVideoType(type) == type \in {"video/mp4", "video/quicktime"}

FileTypes == {"image/heic", "image/heif", "video/mp4", "video/quicktime", "image/jpeg", ""}

FileNames ==
  { <<"a", ".", "m", "p", "4">>, <<"a", ".", "h", "e", "i", "c">>,
    <<"A", ".", "H", "E", "I", "C">>, <<"a", ".", "H", "e", "i", "f">>,
    <<"h", "e", "i", "c">>, <<".", "h", "e", "i", "c", ".", "m", "o", "v">>, <<>> }

ExtractDims == {<<1920, 1080>>, <<1080, 1080>>}

Rejection(msg) == [state |-> "rejected", value |-> msg]

Resolution(value) == [state |-> "resolved", value |-> value]

\* resolve / reject of a promise: only the first one takes effect
Settle(cur, new) == IF cur.state = "pending" THEN new ELSE cur

\* URL.revokeObjectURL(objectUrl)
Revoked_Noop(url) == url

Revoked(url) == IF url = "live" THEN "revoked" ELSE url

\* clearTimeout(timeout)
Cleared(timer) == IF timer = "pending" THEN "cleared" ELSE timer

InitExtract ==
  /\ IdleEarlier /\ IdleAspect /\ IdleJobs /\ IdleNotifier /\ IdleRequests
  /\ ex_pc = "idle"
  /\ ex_file \in [type : FileTypes, name : FileNames]
  /\ ex_dims \in ExtractDims
  /\ ex_url = "none" /\ ex_timer = "none" /\ ex_video = "none"
  /\ ex_seekPending = FALSE /\ ex_settled = Pending /\ ex_log = <<>>

\* the executor: the two early rejections, or the video element, the object
\* URL, the timeout and the listeners
ExtractCall ==
  /\ ex_pc = "idle"
  /\ ex_pc' = "called"
  /\ IF isHeicFile(ex_file)
     THEN /\ ex_settled' = Settle(ex_settled, Rejection("HEIC_REQUIRES_SERVER_PROCESSING"))
          /\ ex_log' = <<"reject">>
          /\ UNCHANGED <<ex_url, ex_timer, ex_video>>
     ELSE IF ~IsVideoType(ex_file.type)
     THEN /\ ex_settled' = Settle(ex_settled, Rejection("File is not a video format"))
          /\ ex_log' = <<"reject">>
          /\ UNCHANGED <<ex_url, ex_timer, ex_video>>
     ELSE /\ ex_url' = "live"
          /\ ex_video' = "loading"
          /\ ex_timer' = "pending"
          /\ ex_log' = <<"createElement", "createObjectURL", "setSrc", "setTimeout">>
          /\ UNCHANGED ex_settled
  /\ UNCHANGED <<ex_file, ex_dims, ex_seekPending>>
  /\ UNCHANGED notExtractVars

\* the setTimeout(..., 10000) callback
ExtractTimeout ==
  /\ ex_timer = "pending"
  /\ ex_timer' = "fired"
  /\ ex_url' = Revoked(ex_url)
  /\ ex_settled' = Settle(ex_settled, Rejection("Video loading timeout"))
  /\ ex_log' = ex_log \o <<"timeoutFired", "revoke", "reject">>
  /\ UNCHANGED <<ex_pc, ex_file, ex_dims, ex_video, ex_seekPending>>
  /\ UNCHANGED notExtractVars

\* the loadeddata listener: clearTimeout, video.currentTime = 0 and the
\* seeked listener, or its catch branch
LoadedData ==
  /\ ex_video = "loading"
  /\ ex_video' = "loaded"
  /\ ex_timer' = Cleared(ex_timer)
  /\ \E ok \in BOOLEAN :
       IF ok
       THEN /\ ex_seekPending' = TRUE
            /\ ex_log' = ex_log \o <<"clearTimeout", "seek">>
            /\ UNCHANGED <<ex_url, ex_settled>>
       ELSE /\ ex_url' = Revoked(ex_url)
            /\ ex_settled' = Settle(ex_settled, Rejection("seek failed"))
            /\ ex_log' = ex_log \o <<"clearTimeout", "revoke", "reject">>
            /\ UNCHANGED ex_seekPending
  /\ UNCHANGED <<ex_pc, ex_file, ex_dims>>
  /\ UNCHANGED notExtractVars

\* the seeked listener: canvas, getContext, drawImage, toDataURL,
\* calculateAspectRatio, revoke and resolve, or its catch branch
Seeked_Extract ==
  /\ ex_seekPending /\ ex_video = "loaded"
  /\ ex_seekPending' = FALSE
  /\ ex_url' = Revoked(ex_url)
  /\ \E outcome \in {"ok", "noContext", "drawThrows"} :
       CASE outcome = "ok" ->
              /\ ex_settled' = Settle(ex_settled,
                                      Resolution(calculateAspectRatio(ex_dims[1], ex_dims[2])))
              /\ ex_log' = ex_log \o <<"getContext", "draw", "capture", "revoke", "resolve">>
         [] outcome = "noContext" ->
              /\ ex_settled' = Settle(ex_settled, Rejection("Could not get canvas context"))
              /\ ex_log' = ex_log \o <<"getContext", "revoke", "reject">>
         [] outcome = "drawThrows" ->
              /\ ex_settled' = Settle(ex_settled, Rejection("draw failed"))
              /\ ex_log' = ex_log \o <<"getContext", "draw", "revoke", "reject">>
  /\ UNCHANGED <<ex_pc, ex_file, ex_dims, ex_timer, ex_video>>
  /\ UNCHANGED notExtractVars

\* the error listener: clearTimeout, revoke, reject
ErrorEvent ==
  /\ ex_video \in {"loading", "loaded"}
  /\ ex_video' = "errored"
  /\ ex_timer' = Cleared(ex_timer)
  /\ ex_url' = Revoked(ex_url)
  /\ ex_settled' = Settle(ex_settled, Rejection("Failed to load video"))
  /\ ex_log' = ex_log \o <<"clearTimeout", "revoke", "reject">>
  /\ UNCHANGED <<ex_pc, ex_file, ex_dims, ex_seekPending>>
  /\ UNCHANGED notExtractVars

NextExtract ==
  \/ ExtractCall
  \/ ExtractTimeout
  \/ LoadedData
  \/ Seeked_Extract
  \/ ErrorEvent

SpecExtract == InitExtract /\ [][NextExtract]_vars

(***************************************************************************)
(* SpecJobs: the VideoRecord and the routes that write it:                 *)
(* POST /api/upload, POST /api/generate and the worker POST /api/process.  *)
(* A step runs a handler from one await to the next; a database call takes *)
(* effect in the step that ends its await, and may throw.                  *)
(***************************************************************************)
\* the files POST /api/upload may receive: absent, or a declared type, a
\* name and whether the size is over 500 MB
UploadTypes ==
  {"video/mp4", "video/quicktime", "video/webm", "image/heic", "image/heif",
   "application/octet-stream", "image/jpeg", ""}

UploadNames ==
  { <<"a", ".", "m", "p", "4">>, <<"A", ".", "H", "E", "I", "C">>,
    <<"a", ".", "h", "e", "i", "f">> }

NoUpload == [present |-> FALSE, type |-> "", name |-> <<>>, tooLarge |-> FALSE]

UploadFiles ==
  {NoUpload} \cup
  [present : {TRUE}, type : UploadTypes, name : UploadNames, tooLarge : BOOLEAN]

allowedTypes ==
  {"video/mp4", "video/quicktime", "video/webm", "image/heic", "image/heif",
   "application/octet-stream"}

\* the validation of POST /api/upload: the status code it answers with
\* before touching the blob store, or 0 when the file passes
UploadRefusal(file) ==
  LET fileName == toLowerCase(file.name)
      isHeic == endsWith(fileName, DotHeic) \/ endsWith(fileName, DotHeif)
  IN IF ~file.present THEN 400
     ELSE IF file.tooLarge THEN 400
     ELSE IF file.type \notin allowedTypes /\ ~isHeic THEN 400
     ELSE 0

\* POST /api/upload: the status code, and whether a row was created
UploadPOST(file, putOk, createOk) ==
  IF UploadRefusal(file) # 0 THEN [http |-> UploadRefusal(file), created |-> FALSE]
  ELSE IF ~putOk \/ ~createOk THEN [http |-> 500, created |-> FALSE]
  ELSE [http |-> 200, created |-> TRUE]

InitJobs ==
  /\ IdleEarlier /\ IdleExtract /\ IdleAspect /\ IdleNotifier /\ IdleRequests
  /\ j_qstash \in BOOLEAN
  /\ j_db = [v \in VideoIds |-> "absent"]
  /\ j_uploadHttp = 0
  /\ j_gen = [g \in 1..MaxGenerate |-> UnusedGenerate]
  /\ j_queue = [v \in VideoIds |-> 0]
  /\ j_work = [w \in 1..MaxWorkers |-> UnusedWorker]

\* the next free id of the table, 0 when the table is full
NextVideoId ==
  IF \E v \in VideoIds : j_db[v] = "absent"
  THEN CHOOSE v \in VideoIds : j_db[v] = "absent" /\ \A x \in VideoIds : x < v => j_db[x] # "absent"
  ELSE 0

\* POST /api/upload, whole: validation, put, prisma.video.create
Upload ==
  /\ NextVideoId # 0
  /\ \E file \in UploadFiles, putOk \in BOOLEAN, createOk \in BOOLEAN :
       LET answer == UploadPOST(file, putOk, createOk) IN
         /\ j_uploadHttp' = answer.http
         /\ j_db' = IF answer.created THEN [j_db EXCEPT ![NextVideoId] = "uploaded"] ELSE j_db
  /\ UNCHANGED <<j_qstash, j_gen, j_queue, j_work>>
  /\ UNCHANGED notJobVars

\* slot n is the next invocation to arrive
IsNextSlot(slots, n) ==
  /\ slots[n].pc = "unused"
  /\ \A m \in 1..(n - 1) : slots[m].pc # "unused"

\* POST /api/generate up to the await of findUnique; 400 without a videoId
GenerateCall(g) ==
  /\ IsNextSlot(j_gen, g)
  /\ \E id \in 0..MaxVideos :
       j_gen' = [j_gen EXCEPT ![g] =
                   IF id = 0 THEN [UnusedGenerate EXCEPT !.pc = "done", !.http = 400]
                   ELSE [UnusedGenerate EXCEPT !.pc = "find", !.id = id]]
  /\ UNCHANGED <<j_qstash, j_db, j_uploadHttp, j_queue, j_work>>
  /\ UNCHANGED notJobVars

\* findUnique settles: 500 from the catch, 404 without a row, or the update
\* is issued
GenerateFound(g) ==
  /\ j_gen[g].pc = "find"
  /\ \E dbOk \in BOOLEAN :
       j_gen' = [j_gen EXCEPT ![g] =
                   IF ~dbOk THEN [@ EXCEPT !.pc = "done", !.http = 500]
                   ELSE IF j_db[j_gen[g].id] = "absent"
                   THEN [@ EXCEPT !.pc = "done", !.http = 404]
                   ELSE [@ EXCEPT !.pc = "update"]]
  /\ UNCHANGED <<j_qstash, j_db, j_uploadHttp, j_queue, j_work>>
  /\ UNCHANGED notJobVars

\* prisma.video.update({ data: { status: 'processing' } }) settles
GenerateUpdated(g) ==
  /\ j_gen[g].pc = "update"
  /\ \E dbOk \in BOOLEAN :
       IF dbOk
       THEN /\ j_db' = [j_db EXCEPT ![j_gen[g].id] = "processing"]
            /\ j_gen' = [j_gen EXCEPT ![g].pc = "dispatch", ![g].updated = TRUE]
       ELSE /\ j_gen' = [j_gen EXCEPT ![g].pc = "done", ![g].http = 500]
            /\ UNCHANGED j_db
  /\ UNCHANGED <<j_qstash, j_uploadHttp, j_queue, j_work>>
  /\ UNCHANGED notJobVars

\* the dispatch: qstash.publishJSON awaited (a failure is the catch's 500),
\* or the fetch that is not awaited (a failure is only logged)
GenerateDispatched(g) ==
  /\ j_gen[g].pc = "dispatch"
  /\ \E sent \in BOOLEAN :
       /\ j_queue' = IF sent THEN [j_queue EXCEPT ![j_gen[g].id] = @ + 1] ELSE j_queue
       /\ j_gen' = [j_gen EXCEPT ![g].pc = "done", ![g].dispatched = sent,
                                 ![g].http = IF j_qstash /\ ~sent THEN 500 ELSE 200]
  /\ UNCHANGED <<j_qstash, j_db, j_uploadHttp, j_work>>
  /\ UNCHANGED notJobVars

\* the worker's catch branch: request.json() again, whose promise rejects on
\* a body that has been read so that the fallback {} is used; the update to
\* failed when the body gives a videoId (its own failure is only logged); 500
WorkerCatch(slot, db) ==
  LET recoveredId == IF slot.bodyUsed THEN 0 ELSE slot.id IN
    [slot |-> [slot EXCEPT !.pc = "done", !.threw = TRUE, !.http = 500,
                           !.bodyUsed = TRUE, !.markedFailed = (recoveredId # 0)],
     db |-> {db} \cup (IF recoveredId # 0 /\ db[recoveredId] # "absent"
                       THEN {[db EXCEPT ![recoveredId] = "failed"]} ELSE {})]

\* POST /api/process up to the await of findUnique: request.json() reads the
\* body of a dispatched request
WorkerStart(w) ==
  /\ IsNextSlot(j_work, w)
  /\ \E id \in VideoIds :
       /\ j_queue[id] > 0
       /\ j_queue' = [j_queue EXCEPT ![id] = @ - 1]
       /\ j_work' = [j_work EXCEPT ![w] = [UnusedWorker EXCEPT !.pc = "find", !.id = id,
                                                                !.bodyUsed = TRUE]]
  /\ UNCHANGED <<j_qstash, j_db, j_uploadHttp, j_gen>>
  /\ UNCHANGED notJobVars

\* findUnique settles: the catch, 404 without a row, or the processing delay
WorkerFound(w) ==
  /\ j_work[w].pc = "find"
  /\ \E dbOk \in BOOLEAN :
       IF ~dbOk
       THEN \E db \in WorkerCatch(j_work[w], j_db).db :
              /\ j_db' = db
              /\ j_work' = [j_work EXCEPT ![w] = WorkerCatch(j_work[w], j_db).slot]
       ELSE /\ j_work' = [j_work EXCEPT ![w] =
                            IF j_db[j_work[w].id] = "absent"
                            THEN [@ EXCEPT !.pc = "done", !.http = 404]
                            ELSE [@ EXCEPT !.pc = "sleep"]]
            /\ UNCHANGED j_db
  /\ UNCHANGED <<j_qstash, j_uploadHttp, j_gen, j_queue>>
  /\ UNCHANGED notJobVars

\* the delay is over and the update to completed settles: 200, or the catch
WorkerUpdated(w) ==
  /\ j_work[w].pc = "sleep"
  /\ \E dbOk \in BOOLEAN :
       IF dbOk
       THEN /\ j_db' = [j_db EXCEPT ![j_work[w].id] = "completed"]
            /\ j_work' = [j_work EXCEPT ![w].pc = "done", ![w].http = 200]
       ELSE \E db \in WorkerCatch(j_work[w], j_db).db :
              /\ j_db' = db
              /\ j_work' = [j_work EXCEPT ![w] = WorkerCatch(j_work[w], j_db).slot]
  /\ UNCHANGED <<j_qstash, j_uploadHttp, j_gen, j_queue>>
  /\ UNCHANGED notJobVars

NextJobs ==
  \/ Upload
  \/ \E g \in 1..MaxGenerate : GenerateCall(g)
  \/ \E g \in 1..MaxGenerate : GenerateFound(g)
  \/ \E g \in 1..MaxGenerate : GenerateUpdated(g)
  \/ \E g \in 1..MaxGenerate : GenerateDispatched(g)
  \/ \E w \in 1..MaxWorkers : WorkerStart(w)
  \/ \E w \in 1..MaxWorkers : WorkerFound(w)
  \/ \E w \in 1..MaxWorkers : WorkerUpdated(w)

SpecJobs == InitJobs /\ [][NextJobs]_vars

(***************************************************************************)
(* SpecUpload: one POST /api/upload, step by step: validation, the put to  *)
(* the blob store, prisma.video.create.                                    *)
(***************************************************************************)
InitUpload ==
  /\ IdleEarlier /\ IdleExtract /\ IdleAspect /\ IdleJobs /\ IdleNotifier /\ IdleLimit
  /\ up_pc = "idle"
  /\ up_file \in UploadFiles
  /\ up_http = 0
  /\ up_rows = 0

\* formData, the three checks, and the call of put for a file that passes
UploadCall ==
  /\ up_pc = "idle"
  /\ IF UploadRefusal(up_file) # 0
     THEN up_pc' = "done" /\ up_http' = UploadRefusal(up_file)
     ELSE up_pc' = "put" /\ up_http' = 0
  /\ UNCHANGED <<up_file, up_rows>>
  /\ UNCHANGED notUploadVars

\* put settles: prisma.video.create is called, or the catch answers 500
UploadPutSettled ==
  /\ up_pc = "put"
  /\ \E putOk \in BOOLEAN :
       IF putOk
       THEN up_pc' = "create" /\ up_http' = 0
       ELSE up_pc' = "done" /\ up_http' = 500
  /\ UNCHANGED <<up_file, up_rows>>
  /\ UNCHANGED notUploadVars

\* create settles: the row exists and the answer is 200, or the catch
\* answers 500
UploadCreateSettled ==
  /\ up_pc = "create"
  /\ up_pc' = "done"
  /\ \E createOk \in BOOLEAN :
       /\ up_http' = UploadPOST(up_file, TRUE, createOk).http
       /\ up_rows' = IF UploadPOST(up_file, TRUE, createOk).created THEN up_rows + 1
                     ELSE up_rows
  /\ UNCHANGED up_file
  /\ UNCHANGED notUploadVars

NextUpload ==
  \/ UploadCall
  \/ UploadPutSettled
  \/ UploadCreateSettled

SpecUpload == InitUpload /\ [][NextUpload]_vars

(***************************************************************************)
(* SpecLimit: one GET /api/limit-status over the KV counter, which other   *)
(* requests increment meanwhile; each kv.get answers or throws.            *)
(***************************************************************************)
KV_DAILY_LIMIT == 100

MaxCount == 102

\* kv.get<number>(key) || 0
CurrentCount(value) == IF value = NoKey THEN 0 ELSE value

\* getRemainingCalls: Math.max(0, DAILY_LIMIT - currentCount), or the full
\* limit when the read throws
getRemainingCalls_ZeroWhenDown(readOk) ==
  IF ~readOk THEN 0
  ELSE IF KV_DAILY_LIMIT - CurrentCount(lm_count) > 0
       THEN KV_DAILY_LIMIT - CurrentCount(lm_count) ELSE 0

getRemainingCalls(readOk) ==
  IF ~readOk THEN KV_DAILY_LIMIT
  ELSE IF KV_DAILY_LIMIT - CurrentCount(lm_count) > 0
       THEN KV_DAILY_LIMIT - CurrentCount(lm_count) ELSE 0

\* getCurrentCount: the count, or 0 when the read throws
getCurrentCount(readOk) == IF ~readOk THEN 0 ELSE CurrentCount(lm_count)

getDailyLimit == KV_DAILY_LIMIT

InitLimit ==
  /\ IdleEarlier /\ IdleExtract /\ IdleAspect /\ IdleJobs /\ IdleNotifier /\ IdleUpload
  /\ lm_pc = "idle"
  /\ lm_count \in {NoKey, 0, 1, KV_DAILY_LIMIT - 1, KV_DAILY_LIMIT, KV_DAILY_LIMIT + 1}
  /\ lm_reads = <<>>
  /\ lm_body = NoBody
  /\ lm_http = 0

\* GET is called and awaits getRemainingCalls
LimitCall ==
  /\ lm_pc = "idle"
  /\ lm_pc' = "remaining"
  /\ UNCHANGED <<lm_count, lm_reads, lm_body, lm_http>>
  /\ UNCHANGED notLimitVars

\* getRemainingCalls settles; getDailyLimit; getCurrentCount is awaited
LimitRemainingRead ==
  /\ lm_pc = "remaining"
  /\ lm_pc' = "used"
  /\ \E readOk \in BOOLEAN :
       /\ lm_reads' = Append(lm_reads, readOk)
       /\ lm_body' = [lm_body EXCEPT !.remaining = getRemainingCalls(readOk),
                                     !.limit = getDailyLimit]
  /\ UNCHANGED <<lm_count, lm_http>>
  /\ UNCHANGED notLimitVars

\* getCurrentCount settles and the response is sent; neither function
\* throws, so the catch of GET is never entered
LimitUsedRead ==
  /\ lm_pc = "used"
  /\ lm_pc' = "done"
  /\ \E readOk \in BOOLEAN :
       /\ lm_reads' = Append(lm_reads, readOk)
       /\ lm_body' = [lm_body EXCEPT !.used = getCurrentCount(readOk)]
  /\ lm_http' = 200
  /\ UNCHANGED lm_count
  /\ UNCHANGED notLimitVars

\* incrementApiCallCount of another request: kv.incr
KvIncr ==
  /\ lm_pc # "done"
  /\ CurrentCount(lm_count) < MaxCount
  /\ lm_count' = CurrentCount(lm_count) + 1
  /\ UNCHANGED <<lm_pc, lm_reads, lm_body, lm_http>>
  /\ UNCHANGED notLimitVars

NextLimit ==
  \/ LimitCall
  \/ LimitRemainingRead
  \/ LimitUsedRead
  \/ KvIncr

SpecLimit == InitLimit /\ [][NextLimit]_vars

(***************************************************************************)
(* SpecNotifier: GET /api/generate (the status stream), one channel.       *)
(* start(controller) sets a 2000 ms interval whose async callback reads    *)
(* the row and enqueues an event; callbacks overlap when a read takes      *)
(* longer than the interval.  enqueue() and close() throw on a closed      *)
(* controller.  The row is written by the other routes meanwhile.          *)
(***************************************************************************)
MaxSamples == 3

\* values of the status column (TEXT), and "absent" for a missing row
StoredStatuses == {"absent", "uploaded", "processing", "completed", "failed", "archived"}

\* the progress of a status event
Progress_FiftyOtherwise(status) ==
  IF status = "uploaded" THEN 10
  ELSE IF status = "processing" THEN 50
  ELSE IF status = "completed" THEN 100
  ELSE 50

Progress(status) ==
  IF status = "uploaded" THEN 10
  ELSE IF status = "processing" THEN 50
  ELSE IF status = "completed" THEN 100
  ELSE 0

\* sendUpdate({ id, status, progress, coverUrl, processedVideoUrl })
StatusEvent(status) == [kind |-> "status", status |-> status, progress |-> Progress(status)]

\* sendUpdate({ error: message })
ErrorEventOf(message) == [kind |-> "error", status |-> message, progress |-> 0]

\* if (video.status === 'completed' || video.status === 'failed')
IsTerminalSample_CompletedOnly(status) == status = "completed"

IsTerminalSample(status) == status = "completed" \/ status = "failed"

InitNotifier ==
  /\ IdleEarlier /\ IdleExtract /\ IdleAspect /\ IdleJobs /\ IdleRequests
  /\ n_pc = "idle"
  /\ n_status \in StoredStatuses
  /\ n_interval = FALSE /\ n_samples = 0 /\ n_inflight = 0
  /\ n_closed = FALSE /\ n_aborted = FALSE /\ n_events = <<>>
  /\ n_closeCalls = 0 /\ n_refused = 0 /\ n_uncaught = 0

\* GET: start(controller) runs, the interval and the abort listener are set
NotifierOpen ==
  /\ n_pc = "idle"
  /\ n_pc' = "open"
  /\ n_interval' = TRUE
  /\ UNCHANGED <<n_status, n_samples, n_inflight, n_closed, n_aborted, n_events,
                 n_closeCalls, n_refused, n_uncaught>>
  /\ UNCHANGED notNotifierVars

\* the other routes write the row: upload creates it, generate sets
\* processing, the worker sets completed
RecordWritten ==
  /\ n_pc = "open"
  /\ \E st \in {"uploaded", "processing", "completed"} :
       /\ st # n_status
       /\ (st = "uploaded") <=> (n_status = "absent")
       /\ n_status' = st
  /\ UNCHANGED <<n_pc, n_interval, n_samples, n_inflight, n_closed, n_aborted, n_events,
                 n_closeCalls, n_refused, n_uncaught>>
  /\ UNCHANGED notNotifierVars

\* the interval fires: the callback starts and awaits findUnique
SampleTick ==
  /\ n_interval
  /\ n_samples < MaxSamples
  /\ n_samples' = n_samples + 1
  /\ n_inflight' = n_inflight + 1
  /\ UNCHANGED <<n_pc, n_status, n_interval, n_closed, n_aborted, n_events,
                 n_closeCalls, n_refused, n_uncaught>>
  /\ UNCHANGED notNotifierVars

\* the callback sends one event and, when last is set, clears the interval
\* and closes; on a closed controller the enqueue throws, the catch branch's
\* enqueue throws again and the exception leaves the callback
SendFromSample(event, last) ==
  IF n_closed
  THEN /\ n_refused' = n_refused + 2
       /\ n_uncaught' = n_uncaught + 1
       /\ UNCHANGED <<n_events, n_interval, n_closed, n_closeCalls>>
  ELSE /\ n_events' = Append(n_events, event)
       /\ IF last
          THEN /\ n_interval' = FALSE
               /\ n_closed' = TRUE
               /\ n_closeCalls' = n_closeCalls + 1
          ELSE UNCHANGED <<n_interval, n_closed, n_closeCalls>>
       /\ UNCHANGED <<n_refused, n_uncaught>>

\* the catch branch after findUnique itself threw: one enqueue, then
\* clearInterval and close
SendFromCatch ==
  IF n_closed
  THEN /\ n_refused' = n_refused + 1
       /\ n_uncaught' = n_uncaught + 1
       /\ UNCHANGED <<n_events, n_interval, n_closed, n_closeCalls>>
  ELSE /\ n_events' = Append(n_events, ErrorEventOf("Failed to check status"))
       /\ n_interval' = FALSE
       /\ n_closed' = TRUE
       /\ n_closeCalls' = n_closeCalls + 1
       /\ UNCHANGED <<n_refused, n_uncaught>>

SampleAnswered_MissingKeepsOpen ==
  /\ n_inflight > 0
  /\ n_inflight' = n_inflight - 1
  /\ \E dbOk \in BOOLEAN :
       IF ~dbOk THEN SendFromCatch
       ELSE IF n_status = "absent"
       THEN SendFromSample(ErrorEventOf("Video not found"), FALSE)
       ELSE SendFromSample(StatusEvent(n_status), IsTerminalSample(n_status))
  /\ UNCHANGED <<n_pc, n_status, n_samples, n_aborted>>
  /\ UNCHANGED notNotifierVars

\* the rest of the interval callback, once its findUnique has settled
SampleAnswered ==
  /\ n_inflight > 0
  /\ n_inflight' = n_inflight - 1
  /\ \E dbOk \in BOOLEAN :
       IF ~dbOk THEN SendFromCatch
       ELSE IF n_status = "absent"
       THEN SendFromSample(ErrorEventOf("Video not found"), TRUE)
       ELSE SendFromSample(StatusEvent(n_status), IsTerminalSample(n_status))
  /\ UNCHANGED <<n_pc, n_status, n_samples, n_aborted>>
  /\ UNCHANGED notNotifierVars

NotifierAbort_KeepsTimer ==
  /\ n_pc = "open" /\ ~n_aborted
  /\ n_aborted' = TRUE
  /\ n_closeCalls' = n_closeCalls + 1
  /\ n_closed' = TRUE
  /\ n_uncaught' = IF n_closed THEN n_uncaught + 1 ELSE n_uncaught
  /\ UNCHANGED <<n_pc, n_status, n_interval, n_samples, n_inflight, n_events, n_refused>>
  /\ UNCHANGED notNotifierVars

\* request.signal's abort listener: clearInterval and controller.close(),
\* which throws on a controller that is closed already
NotifierAbort ==
  /\ n_pc = "open" /\ ~n_aborted
  /\ n_aborted' = TRUE
  /\ n_interval' = FALSE
  /\ n_closeCalls' = n_closeCalls + 1
  /\ n_closed' = TRUE
  /\ n_uncaught' = IF n_closed THEN n_uncaught + 1 ELSE n_uncaught
  /\ UNCHANGED <<n_pc, n_status, n_samples, n_inflight, n_events, n_refused>>
  /\ UNCHANGED notNotifierVars

NextNotifier ==
  \/ NotifierOpen
  \/ RecordWritten
  \/ SampleTick
  \/ SampleAnswered
  \/ NotifierAbort

SpecNotifier == InitNotifier /\ [][NextNotifier]_vars

(***************************************************************************)
(* Claims about the client's functions (SpecClient)                        *)
(***************************************************************************)
Canonical == {"pending", "processing", "completed", "failed"}

SubmitDone == c_pc = "done" /\ c_in.op = "submit" /\ c_in.frame = "ok" /\ c_in.putOk
PollDone == c_pc = "done" /\ c_in.op = "poll" /\ Truthy(c_in.requestId)

\* the non-empty job ids a reply carries in any recognised field
CarriedIds(r) ==
  IF r.kind # "json" THEN {}
  ELSE { v \in (IF r.hasData THEN {r.data.id} ELSE {}) \cup
               {r.flat.request_id, r.flat.id, r.flat.requestId,
                r.flat.prediction_id, r.flat.predictionId} : Truthy(v) }

\* the reply reports a completed status with an output URL, under data ...
NestedCompletion(r) ==
  r.kind = "json" /\ r.hasData /\ r.data.status = "completed"
  /\ Len(r.data.outputs) > 0 /\ Truthy(r.data.outputs[1])

\* ... or flat at top level
FlatCompletion(r) ==
  r.kind = "json" /\ ~r.hasData /\ r.status = "completed"
  /\ Len(r.outputs) > 0 /\ Truthy(r.outputs[1])

ReportedUrl(r) == IF NestedCompletion(r) THEN r.data.outputs[1] ELSE r.outputs[1]

\* C4: whenever the provider's submit reply carries a job id and reports a
\* completed status with an output URL, nested under data or flat at top
\* level, submitStylizeTask returns a task with status completed and that
\* resultUrl (never pending).
C4_SyncResultSurfaced ==
  (SubmitDone /\ c_in.apiKey /\ CarriedIds(c_in.reply) # {}
     /\ (NestedCompletion(c_in.reply) \/ FlatCompletion(c_in.reply)))
  => (c_task.kind = "ok" /\ c_task.status = "completed"
      /\ c_task.resultUrl = ReportedUrl(c_in.reply))

\* C5: the status answered by GET /api/stylize/{requestId} for a polled task
\* is one of pending, processing, completed, failed, whatever status token
\* the provider sent; succeeded is answered as completed and error as failed.
C5_PollStatusCanonical ==
  PollDone =>
    /\ c_get.status \in Canonical
    /\ (c_result.kind = "ok" /\ c_result.status = "succeeded" => c_get.status = "completed")
    /\ (c_result.kind = "ok" /\ c_result.status = "error" => c_get.status = "failed")

\* C6: submitStylizeTask never returns a task without a job id: a returned
\* task carries a non-empty id that the reply carried, and a non-2xx reply,
\* an unreadable body or a reply with no non-empty id field makes it throw,
\* which the route answers with 500 and no requestId.
C6_NoTaskWithoutJobId ==
  SubmitDone =>
    /\ (c_task.kind = "ok" => c_task.requestId \in CarriedIds(c_in.reply))
    /\ (CarriedIds(c_in.reply) = {} =>
          c_task.kind = "throw" /\ c_post.http = 500 /\ c_post.requestId = U)

\* a 2xx reply whose id fields are all absent or empty has been refused
C6_Witness ==
  /\ SubmitDone /\ c_in.apiKey /\ c_in.reply.kind = "json"
  /\ c_in.reply.hasData /\ c_in.reply.data.id = "" /\ c_in.reply.flat.request_id = ""
  /\ CarriedIds(c_in.reply) = {}
  /\ c_task.kind = "throw" /\ c_post.http = 500

(***************************************************************************)
(* Claims about pollStylizeResult (SpecPoll, FairSpecPoll)                 *)
(***************************************************************************)
IsTerminalStatus(st) == st \in {"completed", "failed"}

PollsIssued == Cardinality({i \in 1..Len(p_log) : p_log[i][1] = "poll"})

PollFinished == p_pc \in {"returned", "timeout", "threw"}

\* C1: pollStylizeResult stops on the first terminal poll result: a result
\* with status completed or failed is the last entry of the run (no poll and
\* no sleep follows it) and it is the value returned.
C1_StopsOnFirstTerminal ==
  \A i \in 1..Len(p_log) :
    (p_log[i][1] = "result" /\ IsTerminalStatus(p_log[i][2]))
      => (i = Len(p_log) /\ p_pc = "returned" /\ p_ret.kind = "ok"
          /\ p_ret.status = p_log[i][2])

\* a terminal result arrived on the second poll with attempts to spare
C1_Witness ==
  /\ p_pc = "returned" /\ p_maxAttempts = 3 /\ PollsIssued = 2
  /\ p_log[2] = <<"result", "processing">>
  /\ p_log[Len(p_log)] = <<"result", "failed">>

\* C2: when no poll returns a terminal state (and none throws), the call ends
\* with the poll-timeout failure after exactly maxAttempts polls, having
\* slept at most maxAttempts * intervalMs in total; and the call always ends.
C2_BoundedWait ==
  /\ [](p_slept <= p_maxAttempts * p_intervalMs)
  /\ [](p_pc = "timeout" => PollsIssued = p_maxAttempts)
  /\ []((PollFinished /\ \A i \in 1..Len(p_log) :
                           /\ p_log[i][1] # "throw"
                           /\ ~(p_log[i][1] = "result" /\ IsTerminalStatus(p_log[i][2])))
          => p_pc = "timeout")
  /\ <>PollFinished

\* three non-terminal polls at 3000 ms ended in the timeout
C2_Witness ==
  /\ p_pc = "timeout" /\ p_maxAttempts = 3 /\ p_intervalMs = DefaultIntervalMs
  /\ PollsIssued = 3 /\ p_slept = 9000

C7_OnePollOutstanding ==
  /\ p_outstanding <= 1
  /\ \A i \in 1..MaxTasks : pg_tasks[i].inflight <= 1

\* C8: once the UI has left a stylization (poll failure, timeout, handleReset,
\* or a later stylization started), the answer to a poll of that earlier task
\* changes none of doodleCoverUrl, isStylizing, stylizeProgress.
C8_LeftTaskIsInert ==
  [][\A i \in 1..MaxTasks :
       (pg_tasks[i].over /\ pg_tasks'[i].inflight < pg_tasks[i].inflight)
         => UNCHANGED <<pg_doodleCoverUrl, pg_isStylizing, pg_stylizeProgress>>]_vars

(***************************************************************************)
(* Claims about the composition (SpecCompose)                              *)
(***************************************************************************)
IsProgress(e) == e[1] = "progress"

\* the values passed to onProgress so far, as <<"progress", n, d>> for n / d
ProgressSeq == SelectSeq(cv_log, IsProgress)

RatLeq(a, b) == a[2] * b[3] <= b[2] * a[3]

RatIs(a, k) == a[2] = k * a[3]

Positions(kind) == {k \in 1..Len(cv_log) : cv_log[k][1] = kind}

\* C9: in every run of composeVideoWithDoodleCover that resolves, the values
\* passed to onProgress never decrease, the last one is exactly 100 and 100
\* is reported only once, as the last value.
C9_ProgressMonotoneEndsAt100 ==
  cv_settled = "resolved" =>
    LET ps == ProgressSeq IN
      /\ Len(ps) > 0
      /\ \A k \in 1..(Len(ps) - 1) : RatLeq(ps[k], ps[k + 1]) /\ ~RatIs(ps[k], 100)
      /\ RatIs(ps[Len(ps)], 100)

\* a resolved run with the default cover hold and two captured frames, one of
\* them after playback had advanced
C9_Witness ==
  /\ cv_settled = "resolved" /\ cv_coverHs = 150 /\ cv_dur = 2 /\ cv_frames = 2
  /\ \E k \in Positions("frameDraw") : cv_log[k][2] = 1

\* the position of the first phase 2 effect (the seek or a transition draw)
FirstPhase2 ==
  LET P == Positions("seek") \cup Positions("transitionDraw") IN
    IF P = {} THEN Len(cv_log) + 1 ELSE CHOOSE m \in P : \A x \in P : m <= x

\* each phase 1 draw is followed by the paced wait (after the fade draw, if
\* any), and every phase 1 draw precedes the seek and every phase 2 draw
CoverTicksPacedAndFirst ==
  LET first == FirstPhase2 IN
    \A k \in Positions("coverDraw") :
      /\ k < first
      /\ \/ k + 1 <= Len(cv_log) /\ cv_log[k + 1] = Ev("wait", 1000, TargetFps)
         \/ /\ k + 2 <= Len(cv_log) /\ cv_log[k + 1][1] = "fade"
            /\ cv_log[k + 2] = Ev("wait", 1000, TargetFps)

CoverTicks == Cardinality(Positions("coverDraw"))

Phase2Begun == Positions("seek") # {}

\* C10 (as stated): phase 1 performs exactly coverHoldSeconds * targetFps paced
\* cover ticks, each followed by a wait of 1000/targetFps ms, before the seek
\* and the first transition draw of phase 2.
C10_ExactlyProductTicks ==
  /\ CoverTicksPacedAndFirst
  /\ Phase2Begun => CoverTicks * 100 = cv_coverHs * TargetFps

\* C10 (amended): phase 1 performs exactly floor(coverHoldSeconds * targetFps)
\* paced cover ticks (45 for 1.5 s at 30 fps), each followed by a wait of
\* 1000/targetFps ms, and the seek and every phase 2 draw come after the
\* last of them.
C10_FloorOfProductTicks ==
  /\ CoverTicksPacedAndFirst
  /\ Phase2Begun =>
       /\ CoverTicks * 100 <= cv_coverHs * TargetFps
       /\ cv_coverHs * TargetFps < (CoverTicks + 1) * 100
       /\ (cv_coverHs = 150 => CoverTicks = 45)

\* the default 1.5 s hold made its 45 ticks and phase 2 has drawn
C10_Witness ==
  /\ cv_coverHs = 150 /\ CoverTicks = 45 /\ Phase2Begun
  /\ Positions("transitionDraw") # {}

\* C11: in the cover-hold phase the fade-in (second draw of the cover, at
\* opacity i / (number of fading ticks) rising linearly from 0) is applied on
\* exactly the first 30% of the phase's ticks, that is on tick i exactly when
\* i < 0.3 * coverFrames, and on no later tick.
C11_FadeOnFirstThirtyPercent ==
  \A k \in Positions("coverDraw") :
    LET i == cv_log[k][2] IN
      (k + 1 <= Len(cv_log) /\ cv_log[k + 1][1] = "fade") <=> (10 * i < 3 * coverFrames)

\* setup is over: the recorder has been started
SetupDone == cv_rec # "none"

\* C12: composition of a zero-length or near-zero-length source terminates:
\* after setup the promise always settles; for a zero-length source phases 1
\* and 2 run in full (every cover tick, every transition draw) and phase 3
\* draws no frame but stops the recorder on its first capture check, the
\* video having ended or being paused.
C12_ZeroLengthTerminates ==
  /\ [](cv_dur = 0 /\ cv_pc = "playing"
          => /\ CoverTicks = coverFrames
             /\ Cardinality(Positions("transitionDraw")) = transitionFrames
             /\ Positions("frameDraw") = {} /\ cv_frames = 0
             /\ Positions("stop") # {} /\ cv_rec = "inactive")
  /\ (SetupDone ~> (cv_settled # "pending"))

\* a zero-length source went through all three phases and the promise resolved
C12_Witness ==
  /\ cv_dur = 0 /\ cv_coverHs = 150 /\ cv_pc = "playing" /\ cv_settled = "resolved"
  /\ CoverTicks = 45 /\ Positions("frameDraw") = {}

(***************************************************************************)
(* Claims about extractFirstFrame (SpecExtract)                            *)
(***************************************************************************)
UpperChar(c) ==
  CASE c = "c" -> "C" [] c = "e" -> "E" [] c = "f" -> "F"
    [] c = "h" -> "H" [] c = "i" -> "I" [] OTHER -> c

\* the name ends in the suffix, letter case ignored
EndsIgnoringCase(name, suffix) ==
  /\ Len(name) >= Len(suffix)
  /\ \A k \in 1..Len(suffix) :
       name[Len(name) - Len(suffix) + k] \in {suffix[k], UpperChar(suffix[k])}

DeclaredHeic(file) ==
  \/ file.type \in {"image/heic", "image/heif"}
  \/ EndsIgnoringCase(file.name, DotHeic)
  \/ EndsIgnoringCase(file.name, DotHeif)

HeicError == Rejection("HEIC_REQUIRES_SERVER_PROCESSING")

\* C13: for every file whose declared type is image/heic or image/heif or
\* whose name ends, case-insensitively, in .heic or .heif, extractFirstFrame
\* fails with the unsupported-format error, which no other file gets, before
\* any decode session is opened: no video element gets a source and no
\* object URL is created.
C13_HeicRejectedBeforeDecode ==
  ex_pc = "called" =>
    /\ DeclaredHeic(ex_file)
         => /\ ex_settled = HeicError
            /\ ex_url = "none" /\ ex_video = "none" /\ ex_timer = "none"
            /\ ex_log = <<"reject">>
    /\ ex_settled = HeicError => DeclaredHeic(ex_file)

\* a file declared as a video whose upper-case name ends in .HEIC was refused
C13_Witness ==
  /\ ex_pc = "called" /\ ex_file.type = "video/quicktime"
  /\ ex_file.name = <<"A", ".", "H", "E", "I", "C">>
  /\ ex_settled = HeicError /\ ex_url = "none"

UrlCreated == \E k \in 1..Len(ex_log) : ex_log[k] = "createObjectURL"

\* the positions of the log at which the entry is one of the given effects
ExtractPositions(effects) == {k \in 1..Len(ex_log) : ex_log[k] \in effects}

\* C14: on every exit path of extractFirstFrame on which an object URL was
\* created (success, decode error, canvas or draw failure, load timeout) the
\* URL has been revoked by the time the promise settles: every resolve and
\* reject comes after a revoke.
C14_UrlRevokedOnEveryExit ==
  UrlCreated =>
    /\ ex_settled.state # "pending" => ex_url = "revoked"
    /\ \A k \in ExtractPositions({"resolve", "reject"}) :
         \E j \in ExtractPositions({"revoke"}) : j < k

\* the load timed out, the URL is revoked, and later events changed nothing
C14_Witness ==
  /\ ex_settled = Rejection("Video loading timeout") /\ ex_url = "revoked"
  /\ ex_timer = "fired" /\ ex_video = "errored"

\* C15: the load timeout aborts the whole operation: once the 10 s timeout has
\* fired and extractFirstFrame has failed with the timeout error, a later
\* loadeddata or seeked event causes no seek, no canvas draw and no capture.
C15_TimeoutAbortsExtraction ==
  \A k \in ExtractPositions({"timeoutFired"}) :
    \A j \in ExtractPositions({"seek", "draw", "capture"}) : j < k

(***************************************************************************)
(* Claims about calculateAspectRatio (SpecAspect)                          *)
(***************************************************************************)
\* |rw / rh - a / b| <= tn / td, as rationals
WithinOrAtTolerance(rw, rh, a, b, tn, td) ==
  td * Abs(b * rw - a * rh) <= tn * b * rh

\* the first target in the order 16:9, 9:16, 4:3, 1:1 within its tolerance,
\* and the reduced ratio itself when there is none
StatedAspectRatio(w, h) ==
  LET rw == w \div gcd(w, h)
      rh == h \div gcd(w, h)
  IN IF WithinOrAtTolerance(rw, rh, 16, 9, 1, 10) THEN <<16, 9>>
     ELSE IF WithinOrAtTolerance(rw, rh, 9, 16, 1, 10) THEN <<9, 16>>
     ELSE IF WithinOrAtTolerance(rw, rh, 4, 3, 1, 10) THEN <<4, 3>>
     ELSE IF WithinOrAtTolerance(rw, rh, 1, 1, 1, 100) THEN <<1, 1>>
     ELSE <<rw, rh>>

\* C16: for all integer resolutions (w, h) with w > 0 and h > 0, with (rw, rh)
\* the GCD-reduced pair, calculateAspectRatio returns the first target in the
\* order 16:9, 9:16, 4:3, 1:1 with |rw/rh - target| <= tolerance (0.1, 0.1,
\* 0.1, 0.01) and the literal rw:rh exactly when there is none; 1920x1080
\* gives 16:9, 1080x1080 1:1, 1080x1920 9:16 and 640x480 4:3.
C16_AspectRatioWithinTolerance ==
  ar_pc = "done" =>
    /\ ar_out = StatedAspectRatio(ar_dims[1], ar_dims[2])
    /\ (ar_dims = <<1920, 1080>> => ar_out = <<16, 9>>)
    /\ (ar_dims = <<1080, 1080>> => ar_out = <<1, 1>>)
    /\ (ar_dims = <<1080, 1920>> => ar_out = <<9, 16>>)
    /\ (ar_dims = <<640, 480>> => ar_out = <<4, 3>>)

(***************************************************************************)
(* Claims about the VideoRecord (SpecJobs)                                 *)
(***************************************************************************)
\* uploaded -> processing -> completed | failed, from the creation on
StatedMoves ==
  {<<"absent", "uploaded">>, <<"uploaded", "processing">>,
   <<"processing", "completed">>, <<"processing", "failed">>}

\* C17: the VideoRecord status only moves along uploaded -> processing ->
\* completed | failed: in every interleaving of upload, generate and worker
\* calls no record leaves completed or failed, and none reaches completed or
\* failed from anywhere but processing.
C17_StatusOnlyMovesForward ==
  [][\A v \in VideoIds :
       j_db'[v] # j_db[v] => <<j_db[v], j_db'[v]>> \in StatedMoves]_vars

\* C18: if the worker throws after it has read the job id from its request,
\* its failure handler recovers the job id and issues the update that sets
\* the record's status to failed.
C18_WorkerFailureMarksFailed ==
  \A w \in 1..MaxWorkers :
    (j_work[w].threw /\ j_work[w].id # 0) => j_work[w].markedFailed

(***************************************************************************)
(* Claims about the status stream (SpecNotifier)                           *)
(***************************************************************************)
StatedProgress ==
  [st \in StoredStatuses |->
     CASE st = "uploaded" -> 10 [] st = "processing" -> 50 [] st = "completed" -> 100
       [] OTHER -> 0]

\* C19: every status event carries the progress determined by the status it
\* carries alone: 10 for uploaded, 50 for processing, 100 for completed and 0
\* for any other status, failed included.
C19_ProgressFromStatus ==
  \A k \in 1..Len(n_events) :
    n_events[k].kind = "status" => n_events[k].progress = StatedProgress[n_events[k].status]

\* the event for a failed row was delivered with progress 0
C19_Witness ==
  \E k \in 1..Len(n_events) :
    n_events[k] = [kind |-> "status", status |-> "failed", progress |-> 0]

\* C20: once a sample reads completed or failed, the event emitted for it is
\* the last event delivered on the channel: the sampling timer is cleared,
\* the channel is closed and no later event is delivered, whatever the
\* interleaving of timer ticks and read latencies.
C20_TerminalEventIsLast ==
  \A k \in 1..Len(n_events) :
    (n_events[k].kind = "status" /\ n_events[k].status \in {"completed", "failed"})
      => /\ k = Len(n_events)
         /\ n_closed /\ ~n_interval /\ n_closeCalls >= 1

\* a terminal event closed the channel while another sample was in flight,
\* and that sample's answer found the controller closed
C20_Witness ==
  /\ Len(n_events) >= 2
  /\ n_events[Len(n_events)].kind = "status" /\ n_events[Len(n_events)].status = "completed"
  /\ n_closed /\ ~n_aborted /\ n_refused > 0 /\ n_inflight = 0

StatedUploadTypes == {"video/mp4", "video/quicktime", "video/webm", "image/heic", "image/heif"}

StatedAccepted(file) ==
  /\ file.present /\ ~file.tooLarge
  /\ \/ file.type \in StatedUploadTypes
     \/ /\ file.type = "application/octet-stream"
        /\ EndsIgnoringCase(file.name, DotHeic) \/ EndsIgnoringCase(file.name, DotHeif)

\* C22: POST /upload accepts a file exactly when its declared type is one of
\* the five media types, or application/octet-stream with a name ending in
\* .heic or .heif; every other present file, and every file over 500MB, is
\* answered with 400 and creates no record.
C22_UploadAcceptedExactlyWhenStated ==
  /\ (up_pc \in {"put", "create"} \/ up_rows > 0) => StatedAccepted(up_file)
  /\ (up_pc = "done" /\ up_file.present /\ ~StatedAccepted(up_file))
       => (up_http = 400 /\ up_rows = 0)
  /\ (up_pc = "done" /\ StatedAccepted(up_file)) => up_http \in {200, 500}

\* C23: when every KV read of a GET /limit-status throws, the response
\* reports remaining = limit = the daily limit and used = 0, and the failure
\* is not propagated: the answer is the normal 200 response.
C23_LimitStatusFailsOpen ==
  (lm_pc = "done" /\ lm_http # 0 /\ \A k \in 1..Len(lm_reads) : ~lm_reads[k])
    => /\ lm_body = [remaining |-> KV_DAILY_LIMIT, limit |-> KV_DAILY_LIMIT, used |-> 0]
       /\ lm_http = 200

\* both reads threw while the stored count was at the limit
C23_Witness ==
  /\ lm_pc = "done" /\ lm_reads = <<FALSE, FALSE>>
  /\ lm_count = KV_DAILY_LIMIT /\ lm_body.remaining = KV_DAILY_LIMIT

(***************************************************************************)
(* Further claims about the composition (SpecCompose)                      *)
(***************************************************************************)
\* C24: in every terminated run of the composition that created an object
\* URL for the source video, that URL has been revoked by the time the
\* promise settles.
C24_ComposeUrlRevokedOnEveryExit ==
  (cv_settled # "pending" /\ \E k \in 1..Len(cv_log) : cv_log[k][1] = "createObjectURL")
    => ~cv_urlLive

\* C26: recorder.stop() is invoked at most once per composition, and never
\* before phase 3 has started playback.
C26_RecorderStoppedAtMostOnce ==
  /\ cv_stopCalls <= 1
  /\ cv_stopCalls >= 1 => \E k \in 1..Len(cv_log) : cv_log[k][1] = "play"

\* C27: once the composition has rejected, onProgress is invoked no more.
C27_NoProgressAfterReject ==
  \A j \in 1..Len(cv_log) : \A k \in (j + 1)..Len(cv_log) :
    cv_log[j][1] = "reject" => cv_log[k][1] # "progress"

(***************************************************************************)
(* A further claim about the page (SpecPage)                               *)
(***************************************************************************)
\* C28: when the 180000 ms timeout of a stylization fires while the page is
\* still stylizing (no poll has ended it), the polling interval is cleared
\* and isStylizing becomes false.
C28_TimeoutLeavesStylizing ==
  [][\A i \in 1..MaxTasks :
       (pg_tasks[i].timeout /\ ~pg_tasks'[i].timeout /\ i = pg_n /\ pg_isStylizing)
         => (~pg_tasks'[i].interval /\ ~pg_isStylizing')]_vars

(***************************************************************************)
(* Further claims about the status stream (SpecNotifier)                   *)
(***************************************************************************)
\* C25: a sample that finds no record for the id on the open channel
\* delivers exactly one error event, stops the sampling timer and closes the
\* channel; an error event is always the last event of its channel, so no
\* status event follows it.
C25_MissingRecordEndsChannel ==
  /\ [][(n_inflight' < n_inflight /\ n_status = "absent" /\ ~n_closed)
          => /\ Len(n_events') = Len(n_events) + 1
             /\ n_events'[Len(n_events')].kind = "error"
             /\ SubSeq(n_events', 1, Len(n_events)) = n_events
             /\ n_closed' /\ ~n_interval']_vars
  /\ [](\A k \in 1..Len(n_events) :
          n_events[k].kind = "error" => (k = Len(n_events) /\ n_closed /\ ~n_interval))

\* the record was missing, the error event closed the channel, and a sample
\* that was still in flight was answered afterwards
C25_Witness ==
  /\ n_events = <<[kind |-> "error", status |-> "Video not found", progress |-> 0]>>
  /\ n_status = "absent" /\ ~n_aborted /\ n_closed /\ n_refused > 0

\* C29: the stream controller is closed at most once and nothing is enqueued
\* after it has been closed, in every interleaving of ticks, reads in
\* flight, terminal or missing-record samples and the abort event.
C29_ClosedOnceNothingAfter ==
  /\ n_closeCalls <= 1
  /\ n_refused = 0

(***************************************************************************)
(* A further claim about the VideoRecord (SpecJobs)                        *)
(***************************************************************************)
\* C30: an invocation of POST /generate that answers 404 or 500 has not
\* written the record's status and has dispatched no worker.
C30_GenerateErrorLeavesRecord ==
  \A g \in 1..MaxGenerate :
    j_gen[g].http \in {404, 500} => (~j_gen[g].updated /\ ~j_gen[g].dispatched)

====
